---------------------------- MODULE Spec2Model ----------------------------
(***************************************************************************)
(* A model of the gogcli-sandbox broker: the request pipeline of           *)
(* Broker.Handle (internal/broker), the rewrite table of the policy        *)
(* package, the argument builder of the gog runner and the redactor.       *)
(*                                                                         *)
(* Go strings are TLA+ strings; the code's character-level operations      *)
(* (TrimSpace, ToLower, Split, the regular expressions) are computed on    *)
(* their characters with Len, SubSeq and \o.  A JSON value, as             *)
(* encoding/json decodes it into interface{}, is a tagged record           *)
(* [t |-> tag, v |-> payload] with tag in "null", "bool", "num", "str",    *)
(* "list" (payload: a sequence of JSON values) and "map" (payload: a       *)
(* function from keys to JSON values).                                     *)
(***************************************************************************)
EXTENDS Integers, Sequences, FiniteSets, TLC

VARIABLES
    policies,        \* Broker.Policies: the loaded PolicySet (immutable after load)
    DefaultAccount,  \* Broker.DefaultAccount, RunnerFactory.DefaultAccount (cfg.GogAccount)
    labelOnce,       \* Broker.labelOnce: the account keys whose sync.Once has run
    labelErr,        \* Broker.labelErr: account key -> latched build error ("" is nil)
    labelIDToName,   \* Policy.labelIDToName of each account's policy (NilMap: nil)
    labelNameToID,   \* Policy.labelNameToID of each account's policy (NilMap: nil)
    alive,           \* FALSE once the process has died of a fatal stack overflow
    now,             \* time.Now() as the last request saw it, in seconds since the epoch
    pc,              \* where the server is with the current request
    req,             \* the request decoded from the socket
    resp,            \* the response Handle returned for it
    calls,           \* the upstream CLI invocations made while handling it (argv each)
    handlers,        \* the goroutines of net/http serving connections at the same time
    redIn,           \* the arguments of a redact.Redact or parseTimeExpr call taken on its own
    redOut           \* what that call returned

vars == <<policies, DefaultAccount, labelOnce, labelErr, labelIDToName, labelNameToID,
          alive, now, pc, req, resp, calls, handlers, redIn, redOut>>

----------------------------------------------------------------------------
(* Strings *)

Chr(s, i) == IF i >= 1 /\ i <= Len(s) THEN SubSeq(s, i, i) ELSE ""

UpperLetters == "ABCDEFGHIJKLMNOPQRSTUVWXYZ"

LowerLetters == "abcdefghijklmnopqrstuvwxyz"

Digits == "0123456789"

IsUpper(c) == \E i \in 1..26 : SubSeq(UpperLetters, i, i) = c

IsLower(c) == \E i \in 1..26 : SubSeq(LowerLetters, i, i) = c

IsLetter(c) == \E i \in 1..26 : SubSeq(UpperLetters, i, i) = c \/ SubSeq(LowerLetters, i, i) = c

IsDigit(c) == \E i \in 1..10 : SubSeq(Digits, i, i) = c

\* unicode.IsSpace on the characters the model uses
IsSpace(c) == c \in {" ", "\t", "\n", "\r", "\f"}

\* \w of the regexp package
IsWordChar(c) == IsLetter(c) \/ IsDigit(c) \/ c = "_"

LowerChar(c) ==
    IF \E i \in 1..26 : SubSeq(UpperLetters, i, i) = c
    THEN Chr(LowerLetters, CHOOSE i \in 1..26 : SubSeq(UpperLetters, i, i) = c)
    ELSE c

RECURSIVE ToLower(_)
ToLower(s) == IF s = "" THEN "" ELSE LowerChar(SubSeq(s, 1, 1)) \o ToLower(Tail(s))

EqualFold(a, b) == ToLower(a) = ToLower(b)

\* the positions of s that hold no space
NonSpaceAt(s) == {i \in 1..Len(s) : ~IsSpace(SubSeq(s, i, i))}

Min(S) == CHOOSE i \in S : \A j \in S : i <= j

Max(S) == CHOOSE i \in S : \A j \in S : i >= j

TrimSpace(s) ==
    IF NonSpaceAt(s) = {} THEN "" ELSE SubSeq(s, Min(NonSpaceAt(s)), Max(NonSpaceAt(s)))

HasPrefix(s, p) == Len(s) >= Len(p) /\ SubSeq(s, 1, Len(p)) = p

HasSuffix(s, p) == Len(s) >= Len(p) /\ SubSeq(s, Len(s) - Len(p) + 1, Len(s)) = p

TrimPrefix(s, p) == IF HasPrefix(s, p) THEN SubSeq(s, Len(p) + 1, Len(s)) ELSE s

\* the substring p occurs in s at position i
OccursAt(s, i, p) == i >= 1 /\ i + Len(p) - 1 <= Len(s) /\ SubSeq(s, i, i + Len(p) - 1) = p

Contains(s, p) == \E i \in 1..(Len(s) + 1) : OccursAt(s, i, p)

\* the positions of s that hold the character sep
SepAt(s, sep) == {i \in 1..Len(s) : SubSeq(s, i, i) = sep}

\* strings.Split(s, sep) for a one-character separator
RECURSIVE Split(_, _)
Split(s, sep) ==
    IF SepAt(s, sep) = {} THEN <<s>>
    ELSE <<SubSeq(s, 1, Min(SepAt(s, sep)) - 1)>>
         \o Split(SubSeq(s, Min(SepAt(s, sep)) + 1, Len(s)), sep)

RECURSIVE Join(_, _)
Join(parts, sep) ==
    IF Len(parts) = 0 THEN ""
    ELSE IF Len(parts) = 1 THEN parts[1]
    ELSE parts[1] \o sep \o Join(Tail(parts), sep)

\* strconv.Itoa / strconv.FormatInt(_, 10)
RECURSIVE Itoa(_)
Itoa(n) ==
    IF n < 0 THEN "-" \o Itoa(-n)
    ELSE IF n < 10 THEN Chr(Digits, n + 1)
    ELSE Itoa(n \div 10) \o Chr(Digits, (n % 10) + 1)

DigitValue(c) == CHOOSE d \in 0..9 : SubSeq(Digits, d + 1, d + 1) = c

\* the value of a string of decimal digits
RECURSIVE DigitsValue(_)
DigitsValue(s) ==
    IF s = "" THEN 0
    ELSE 10 * DigitsValue(SubSeq(s, 1, Len(s) - 1)) + DigitValue(SubSeq(s, Len(s), Len(s)))

AllDigits(s) == s # "" /\ \A i \in 1..Len(s) : IsDigit(Chr(s, i))

InSeq(x, s) == \E i \in 1..Len(s) : s[i] = x

SeqToSet(s) == {s[i] : i \in 1..Len(s)}

----------------------------------------------------------------------------
(* JSON values *)

JNull == [t |-> "null", v |-> 0]

JBool(b) == [t |-> "bool", v |-> b]

JNum(n) == [t |-> "num", v |-> n]

JStr(s) == [t |-> "str", v |-> s]

JList(l) == [t |-> "list", v |-> l]

JMap(m) == [t |-> "map", v |-> m]

EmptyMap == [k \in {} |-> JNull]

Has(m, k) == k \in DOMAIN m

Put(m, k, val) == (k :> val) @@ m

Delete(m, k) == [q \in (DOMAIN m) \ {k} |-> m[q]]

----------------------------------------------------------------------------
(* Civil dates: time.Time is the number of seconds since the Unix epoch, UTC *)

SecondsPerDay == 24 * 3600

IsLeap(y) == (y % 4 = 0 /\ y % 100 # 0) \/ y % 400 = 0

DaysInMonth(y, m) ==
    IF m = 2 THEN (IF IsLeap(y) THEN 29 ELSE 28)
    ELSE IF m \in {4, 6, 9, 11} THEN 30 ELSE 31

\* days since 1970-01-01 of the civil date y-m-d
DaysFromCivil(y, m, d) ==
    LET yy  == IF m <= 2 THEN y - 1 ELSE y
        era == yy \div 400
        yoe == yy - era * 400
        mp  == (m + 9) % 12
        doy == (153 * mp + 2) \div 5 + d - 1
        doe == yoe * 365 + yoe \div 4 - yoe \div 100 + doy
    IN  era * 146097 + doe - 719468

\* the civil date of the day z days after 1970-01-01: the day doy of the year yoe
\* of the 400-year era, in the month mp counted from March
CivilAt(era, yoe, doy, mp) ==
    [y |-> yoe + era * 400 + (IF mp >= 10 THEN 1 ELSE 0),
     m |-> IF mp < 10 THEN mp + 3 ELSE mp - 9,
     d |-> doy - (153 * mp + 2) \div 5 + 1]

CivilOfDay(era, yoe, doy) == CivilAt(era, yoe, doy, (5 * doy + 2) \div 153)

CivilOfYear(era, doe, yoe) ==
    CivilOfDay(era, yoe, doe - (365 * yoe + yoe \div 4 - yoe \div 100))

CivilInEra(era, doe) ==
    CivilOfYear(era, doe, (doe - doe \div 1460 + doe \div 36524 - doe \div 146096) \div 365)

CivilFromDays(z) == CivilInEra((z + 719468) \div 146097, (z + 719468) % 146097)

Pad2(n) == Chr(Digits, ((n \div 10) % 10) + 1) \o Chr(Digits, (n % 10) + 1)

Pad4(n) == Pad2(n \div 100) \o Pad2(n % 100)

\* time.Weekday: 0 is Sunday (1970-01-01 was a Thursday)
Weekday(t) == ((t \div SecondsPerDay) + 4) % 7

\* the zone of time.RFC3339 ("Z07:00") for a zone off seconds east of UTC
FormatZone(off) ==
    IF off = 0 THEN "Z"
    ELSE IF off < 0 THEN "-" \o Pad2((-off) \div 3600) \o ":" \o Pad2(((-off) % 3600) \div 60)
    ELSE "+" \o Pad2(off \div 3600) \o ":" \o Pad2((off % 3600) \div 60)

\* the civil date c and the second sod of the day, in the zone off
FormatCivil(c, sod, off) ==
    Pad4(c.y) \o "-" \o Pad2(c.m) \o "-" \o Pad2(c.d) \o "T" \o Pad2(sod \div 3600)
    \o ":" \o Pad2((sod % 3600) \div 60) \o ":" \o Pad2(sod % 60) \o FormatZone(off)

\* x.Format(time.RFC3339): x.t is the instant, x.off its zone's offset in seconds
FormatRFC3339(x) ==
    FormatCivil(CivilFromDays((x.t + x.off) \div SecondsPerDay), (x.t + x.off) % SecondsPerDay,
                x.off)

NoTime == [ok |-> FALSE, t |-> 0, off |-> 0]

TimeAt(t) == [ok |-> TRUE, t |-> t, off |-> 0]

\* s[i..i+n-1] is n decimal digits
DigitsAt(s, i, n) == i + n - 1 <= Len(s) /\ \A k \in i..(i + n - 1) : IsDigit(SubSeq(s, k, k))

DateOf(y, m, d) ==
    IF m >= 1 /\ m <= 12 /\ d >= 1 /\ d <= DaysInMonth(y, m)
    THEN TimeAt(DaysFromCivil(y, m, d) * SecondsPerDay)
    ELSE NoTime

\* the fields YYYY-MM-DD at the head of s, as time.Parse checks them
ParseDateAt(s) ==
    IF DigitsAt(s, 1, 4) /\ Chr(s, 5) = "-" /\ DigitsAt(s, 6, 2) /\ Chr(s, 8) = "-"
       /\ DigitsAt(s, 9, 2)
    THEN DateOf(DigitsValue(SubSeq(s, 1, 4)), DigitsValue(SubSeq(s, 6, 7)),
                DigitsValue(SubSeq(s, 9, 10)))
    ELSE NoTime

ClockOf(h, mi, se) ==
    IF h <= 23 /\ mi <= 59 /\ se <= 59 THEN TimeAt(h * 3600 + mi * 60 + se) ELSE NoTime

\* the fields HH:MM:SS of s
ParseClock(s) ==
    IF Len(s) = 8 /\ DigitsAt(s, 1, 2) /\ Chr(s, 3) = ":" /\ DigitsAt(s, 4, 2)
       /\ Chr(s, 6) = ":" /\ DigitsAt(s, 7, 2)
    THEN ClockOf(DigitsValue(SubSeq(s, 1, 2)), DigitsValue(SubSeq(s, 4, 5)),
                 DigitsValue(SubSeq(s, 7, 8)))
    ELSE NoTime

OffsetOf(sign, h, m) ==
    IF h <= 23 /\ m <= 59
    THEN TimeAt((IF sign = "-" THEN -1 ELSE 1) * (h * 3600 + m * 60))
    ELSE NoTime

\* a numeric zone offset: +HH:MM (colon) or +HHMM
ParseOffset(s, colon) ==
    IF colon
    THEN (IF Len(s) = 6 /\ Chr(s, 1) \in {"+", "-"} /\ DigitsAt(s, 2, 2) /\ Chr(s, 4) = ":"
             /\ DigitsAt(s, 5, 2)
          THEN OffsetOf(Chr(s, 1), DigitsValue(SubSeq(s, 2, 3)), DigitsValue(SubSeq(s, 5, 6)))
          ELSE NoTime)
    ELSE (IF Len(s) = 5 /\ Chr(s, 1) \in {"+", "-"} /\ DigitsAt(s, 2, 4)
          THEN OffsetOf(Chr(s, 1), DigitsValue(SubSeq(s, 2, 3)), DigitsValue(SubSeq(s, 4, 5)))
          ELSE NoTime)

\* the instant of the date d at the clock c in the zone o
ZonedTime(d, c, o) ==
    IF d.ok /\ c.ok /\ o.ok THEN [ok |-> TRUE, t |-> d.t + c.t - o.t, off |-> o.t] ELSE NoTime

\* time.Parse(layout, s) for a layout date "T" clock zone; rfc: the zone is Z or
\* +HH:MM (time.RFC3339), otherwise +HHMM ("2006-01-02T15:04:05-0700")
ParseDateTimeZone(s, rfc) ==
    IF Len(s) >= 19 /\ Chr(s, 11) = "T"
    THEN ZonedTime(ParseDateAt(s), ParseClock(SubSeq(s, 12, 19)),
                   IF rfc /\ SubSeq(s, 20, Len(s)) = "Z" THEN TimeAt(0)
                   ELSE ParseOffset(SubSeq(s, 20, Len(s)), rfc))
    ELSE NoTime

----------------------------------------------------------------------------
(* internal/policy: parameter getters *)

\* a []string the rewriters store into params (not a JSON-decoded []interface{})
GoStrings(l) == [t |-> "gostrings", v |-> l]

NoString == [ok |-> FALSE, s |-> ""]

getString(params, key) ==
    IF Has(params, key) /\ params[key].t = "str"
    THEN [ok |-> TRUE, s |-> params[key].v]
    ELSE NoString

RECURSIVE getStringAny(_, _)
getStringAny(params, keys) ==
    IF Len(keys) = 0 THEN NoString
    ELSE IF getString(params, keys[1]).ok THEN getString(params, keys[1])
    ELSE getStringAny(params, Tail(keys))

NoBool == [ok |-> FALSE, b |-> FALSE]

getBool(params, key) ==
    IF ~Has(params, key) THEN NoBool
    ELSE LET val == params[key]
         IN  IF val.t = "bool" THEN [ok |-> TRUE, b |-> val.v]
             ELSE IF val.t = "str" /\ val.v = "true" THEN [ok |-> TRUE, b |-> TRUE]
             ELSE IF val.t = "str" /\ val.v = "false" THEN [ok |-> TRUE, b |-> FALSE]
             ELSE NoBool

NoInt == [ok |-> FALSE, n |-> 0]

\* strconv.Atoi: an optional sign and decimal digits; out of range is an error
\* (the model's integers hold nine digits; the inputs with more have twenty and
\* overflow Go's int too)
Unsigned(body) ==
    IF AllDigits(body) /\ Len(body) <= 9 THEN [ok |-> TRUE, n |-> DigitsValue(body)] ELSE NoInt

Negated(u) == IF u.ok THEN [ok |-> TRUE, n |-> -u.n] ELSE u

Atoi(s) ==
    IF HasPrefix(s, "-") THEN Negated(Unsigned(SubSeq(s, 2, Len(s))))
    ELSE Unsigned(IF HasPrefix(s, "+") THEN SubSeq(s, 2, Len(s)) ELSE s)

getInt(params, key) ==
    IF ~Has(params, key) THEN NoInt
    ELSE LET val == params[key]
         IN  IF val.t = "num" THEN [ok |-> TRUE, n |-> val.v]
             ELSE IF val.t = "str" THEN Atoi(val.v)
             ELSE NoInt

NoSlice == [ok |-> FALSE, l |-> << >>]

getStringSlice(params, key) ==
    IF ~Has(params, key) \/ params[key].t = "null" THEN NoSlice
    ELSE LET val == params[key]
         IN  IF val.t = "str"
             THEN LET parts == Split(val.v, ",")
                      trimmed == [i \in 1..Len(parts) |-> TrimSpace(parts[i])]
                      out == SelectSeq(trimmed, LAMBDA x : x # "")
                  IN  IF Len(out) = 0 THEN NoSlice ELSE [ok |-> TRUE, l |-> out]
             ELSE IF val.t = "list"
             THEN LET strs == SelectSeq(val.v, LAMBDA item : item.t = "str")
                      out == [i \in 1..Len(strs) |-> strs[i].v]
                  IN  IF Len(out) = 0 THEN NoSlice ELSE [ok |-> TRUE, l |-> out]
             ELSE NoSlice

stringInSlice(s, list) == \E i \in 1..Len(list) : list[i] = s

----------------------------------------------------------------------------
(* internal/policy: the label map and the label allowlists *)

NilMap == [set |-> FALSE, m |-> << >>]

\* the lower-cased, trimmed, non-empty entries of a list
LowerSet(list) == {ToLower(TrimSpace(list[i])) : i \in 1..Len(list)} \ {""}

\* the <<id, name>> pairs Policy.SetLabelMap keeps, both trimmed
LabelPairs(idToName) ==
    {pr \in {<<TrimSpace(id), TrimSpace(idToName[id])>> : id \in DOMAIN idToName} :
        pr[1] # "" /\ pr[2] # ""}

\* the map from the lower-cased component k of each pair to its component v
FoldedMap(pairs, k, v) ==
    [key \in {ToLower(pr[k]) : pr \in pairs} |-> (CHOOSE pr \in pairs : ToLower(pr[k]) = key)[v]]

\* Policy.SetLabelMap: the two maps it installs, from the id -> name map given
SetLabelMapNormalized(idToName) == [set |-> TRUE, m |-> FoldedMap(LabelPairs(idToName), 1, 2)]

SetLabelMapRev(idToName) == [set |-> TRUE, m |-> FoldedMap(LabelPairs(idToName), 2, 1)]

Lookup(labelMap, k) ==
    IF labelMap.set /\ k \in DOMAIN labelMap.m THEN [ok |-> TRUE, s |-> labelMap.m[k]]
    ELSE NoString

LabelNameForID(p, id) == Lookup(p.labelIDToName, ToLower(TrimSpace(id)))

LabelIDForName(p, name) == Lookup(p.labelNameToID, ToLower(TrimSpace(name)))

\* a resolved id or name that is in the allowed set
ResolvesInto(found, allowedSet) == found.ok /\ ToLower(found.s) \in allowedSet

isLabelAllowedIn(p, label, allowedSet) ==
    /\ label # ""
    /\ \/ ToLower(label) \in allowedSet
       \/ ResolvesInto(LabelIDForName(p, label), allowedSet)
       \/ ResolvesInto(LabelNameForID(p, label), allowedSet)

isLabelAllowed(p, label, allowed) ==
    p.HasGmail /\ Len(allowed) > 0 /\ isLabelAllowedIn(p, TrimSpace(label), LowerSet(allowed))

labelNotAllowed(labels, bad) ==
    IF bad = {} THEN "" ELSE "label not allowed: " \o TrimSpace(labels[Min(bad)])

\* the error validateLabels returns ("" is nil)
validateLabels(p, labels, allowed, mode, allowEmpty) ==
    IF Len(labels) = 0 THEN ""
    ELSE IF ~p.HasGmail THEN "gmail policy missing"
    ELSE IF Len(allowed) = 0
    THEN (IF allowEmpty THEN "" ELSE "no labels allowed for " \o mode)
    ELSE labelNotAllowed(labels, {i \in 1..Len(labels) :
                                     TrimSpace(labels[i]) # ""
                                     /\ ~isLabelAllowed(p, labels[i], allowed)})

----------------------------------------------------------------------------
(* internal/policy: the Gmail query window *)

\* the number of digits of s from position j on
RECURSIVE DigitRun(_, _)
DigitRun(s, j) == IF j <= Len(s) /\ IsDigit(Chr(s, j)) THEN 1 + DigitRun(s, j + 1) ELSE 0

\* \b before a word character at position i
WordStartAt(s, i) == i = 1 \/ ~IsWordChar(Chr(s, i - 1))

\* (?i) and a literal word at position i
FoldedAt(s, i, word) ==
    i + Len(word) - 1 <= Len(s) /\ ToLower(SubSeq(s, i, i + Len(word) - 1)) = word

\* the k digits at position j, when the d of newerThanRe follows them
DigitsBeforeD(s, j, k) ==
    IF k >= 1 /\ Chr(s, j + k) \in {"d", "D"} THEN [ok |-> TRUE, s |-> SubSeq(s, j, j + k - 1)]
    ELSE NoString

\* newerThanRe, (?i)\bnewer_than:(\d+)d, matched at position i: the digits it captures
NewerThanAt(s, i) ==
    IF FoldedAt(s, i, "newer_than:") /\ WordStartAt(s, i)
    THEN DigitsBeforeD(s, i + 11, DigitRun(s, i + 11))
    ELSE NoString

\* \d{4}/\d{2}/\d{2} at position j, as "YYYY-MM-DD"
SlashDateAt(s, j) ==
    IF DigitsAt(s, j, 4) /\ Chr(s, j + 4) = "/" /\ DigitsAt(s, j + 5, 2) /\ Chr(s, j + 7) = "/"
       /\ DigitsAt(s, j + 8, 2)
    THEN [ok |-> TRUE,
          s  |-> SubSeq(s, j, j + 3) \o "-" \o SubSeq(s, j + 5, j + 6) \o "-"
                 \o SubSeq(s, j + 8, j + 9)]
    ELSE NoString

\* afterRe, (?i)\bafter:(\d{4})/(\d{2})/(\d{2}), matched at position i: "YYYY-MM-DD"
AfterAt(s, i) ==
    IF FoldedAt(s, i, "after:") /\ WordStartAt(s, i) THEN SlashDateAt(s, i + 6) ELSE NoString

\* strconv.Atoi of the digits of the leftmost match, among the matches at hits
daysAt(query, hits) == IF hits = {} THEN NoInt ELSE Atoi(NewerThanAt(query, Min(hits)).s)

extractNewerThanDays(query) ==
    daysAt(query, {i \in 1..Len(query) : NewerThanAt(query, i).ok})

\* time.Parse("2006-01-02", _) of the date of the leftmost match
dateAt(query, hits) == IF hits = {} THEN NoTime ELSE ParseDateAt(AfterAt(query, Min(hits)).s)

extractAfterDate(query) == dateAt(query, {i \in 1..Len(query) : AfterAt(query, i).ok})

senderPart(sender) ==
    IF sender = "" THEN << >>
    ELSE IF HasPrefix(sender, "@") THEN <<"from:" \o sender>>
    ELSE <<"from:@" \o sender>>

RECURSIVE senderParts(_)
senderParts(senders) ==
    IF Len(senders) = 0 THEN << >>
    ELSE senderPart(TrimSpace(senders[1])) \o senderParts(Tail(senders))

restrictTo(query, parts) ==
    IF Len(parts) = 0 THEN query ELSE TrimSpace(query \o " (" \o Join(parts, " OR ") \o ")")

appendSenderRestriction(query, senders) == restrictTo(query, senderParts(senders))

\* what a rewriter returns: the error ("" is nil), the params, the warnings; and what
\* it did on the way: upstream invocations (the time-zone provider's) and whether the
\* goroutine overflowed its stack
RwOk(params, warnings) ==
    [err |-> "", params |-> params, warnings |-> warnings, calls |-> << >>, crash |-> FALSE]

RwErr(msg) ==
    [err |-> msg, params |-> EmptyMap, warnings |-> << >>, calls |-> << >>, crash |-> FALSE]

Window(err, query, warnings) == [err |-> err, q |-> query, w |-> warnings]

\* a max_days step that lets every query through as it came
windowForAny(maxDays, days, after, query, warnings, t) == Window("", query, warnings)

\* the max_days step of rewriteGmailQuery for maxDays > 0: days and after are what
\* the query's newer_than: and after: give
windowFor(maxDays, days, after, query, warnings, t) ==
    IF days.ok
    THEN (IF days.n > maxDays
          THEN Window("query newer_than exceeds max_days (" \o Itoa(maxDays) \o ")", query,
                      warnings)
          ELSE Window("", query, warnings))
    ELSE IF after.ok
    THEN (IF after.t < t - maxDays * SecondsPerDay
          THEN Window("query after date exceeds max_days (" \o Itoa(maxDays) \o ")", query,
                      warnings)
          ELSE Window("", query, warnings))
    ELSE Window("", TrimSpace(query \o " newer_than:" \o Itoa(maxDays) \o "d"),
                Append(warnings, "query_rewritten:newer_than"))

\* the query after the max_days step, and the warnings
queryWindow(p, query, warnings, t) ==
    IF p.Gmail.MaxDays <= 0 THEN Window("", query, warnings)
    ELSE windowFor(p.Gmail.MaxDays, extractNewerThanDays(query), extractAfterDate(query),
                   query, warnings, t)

\* the sender step of rewriteGmailQuery, on what the max_days step left
restrictSenders(p, params, win) ==
    IF win.err # "" THEN RwErr(win.err)
    ELSE IF Len(p.Gmail.AllowedSenders) > 0
    THEN RwOk(Put(params, "query",
                  JStr(appendSenderRestriction(win.q, p.Gmail.AllowedSenders))),
              Append(win.w, "query_rewritten:sender_restriction"))
    ELSE RwOk(Put(params, "query", JStr(win.q)), win.w)

rewriteGmailQuery(p, params, warnings, t) ==
    IF ~getString(params, "query").ok \/ TrimSpace(getString(params, "query").s) = ""
    THEN RwErr("params.query is required")
    ELSE IF ~p.HasGmail
    THEN RwOk(Put(params, "query", JStr(getString(params, "query").s)), warnings)
    ELSE restrictSenders(p, params,
                         queryWindow(p, getString(params, "query").s, warnings, t))

----------------------------------------------------------------------------
(* internal/policy: the Gmail rewriters *)

rewriteGmailThreadGet(p, params, warnings) ==
    IF getString(params, "id").ok
    THEN RwOk(Put(params, "thread_id", JStr(getString(params, "id").s)), warnings)
    ELSE IF getString(params, "thread_id").ok
    THEN RwOk(Put(params, "thread_id", JStr(getString(params, "thread_id").s)), warnings)
    ELSE RwErr("params.id or params.thread_id is required")

withJoined(params, key, labels) ==
    IF Len(labels) > 0 THEN Put(params, key, JStr(Join(labels, ","))) ELSE params

\* params with add and remove replaced by the joined labels, when there are any
joinLabels(params, addLabels, removeLabels) ==
    withJoined(withJoined(params, "add", addLabels), "remove", removeLabels)

\* the first of two errors ("" is nil), or the rewritten params
firstError(addErr, removeErr, params, warnings) ==
    IF addErr # "" THEN RwErr(addErr)
    ELSE IF removeErr # "" THEN RwErr(removeErr)
    ELSE RwOk(params, warnings)

\* the label checks of rewriteGmailThreadModify and rewriteGmailLabelsModify, on
\* the params that already hold the thread ids
modifyLabels(p, params, addLabels, removeLabels, warnings) ==
    IF Len(addLabels) = 0 /\ Len(removeLabels) = 0
    THEN RwErr("params.add or params.remove is required")
    ELSE firstError(validateLabels(p, addLabels, p.Gmail.AllowedAddLabels, "add", FALSE),
                    validateLabels(p, removeLabels, p.Gmail.AllowedRemoveLabels, "remove",
                                   FALSE),
                    joinLabels(params, addLabels, removeLabels), warnings)

modifyThread(p, params, threadID, warnings) ==
    IF ~threadID.ok \/ TrimSpace(threadID.s) = "" THEN RwErr("params.thread_id is required")
    ELSE modifyLabels(p, Put(params, "thread_id", JStr(TrimSpace(threadID.s))),
                      getStringSlice(params, "add").l, getStringSlice(params, "remove").l,
                      warnings)

rewriteGmailThreadModify(p, params, warnings) ==
    modifyThread(p, params, getStringAny(params, <<"thread_id", "id">>), warnings)

getMessage(params, id, mid, format, warnings) ==
    IF ~id.ok /\ ~mid.ok THEN RwErr("params.id or params.message_id is required")
    ELSE IF format.ok /\ format.s # "" /\ format.s # "metadata"
    THEN RwErr("format must be metadata")
    ELSE IF Has(params, "headers")
    THEN RwOk(Delete(Put(Put(params, "message_id", JStr(IF id.ok THEN id.s ELSE mid.s)),
                         "format", JStr("metadata")), "headers"),
              Append(warnings, "headers_ignored:default"))
    ELSE RwOk(Put(Put(params, "message_id", JStr(IF id.ok THEN id.s ELSE mid.s)),
                  "format", JStr("metadata")), warnings)

rewriteGmailGet(p, params, warnings) ==
    getMessage(params, getString(params, "id"), getString(params, "message_id"),
               getString(params, "format"), warnings)

\* net/mail.ParseAddress on the forms the model's inputs take: an addr-spec, or a
\* display name followed by <addr-spec>
IsAddrChar(c) == IsLetter(c) \/ IsDigit(c) \/ c \in {"@", ".", "-", "_", "+", "%"}

IsAddrSpec(a) ==
    /\ Cardinality(SepAt(a, "@")) = 1
    /\ ~HasPrefix(a, "@") /\ ~HasSuffix(a, "@")
    /\ \A i \in 1..Len(a) : IsAddrChar(SubSeq(a, i, i))

\* the text between the first < and a closing > at the end
AngleAddr(a) ==
    IF SepAt(a, "<") = {} \/ ~HasSuffix(a, ">") THEN ""
    ELSE SubSeq(a, Min(SepAt(a, "<")) + 1, Len(a) - 1)

addressOf(a, inner) ==
    IF IsAddrSpec(a) THEN [ok |-> TRUE, s |-> a]
    ELSE IF IsAddrSpec(inner) THEN [ok |-> TRUE, s |-> inner]
    ELSE NoString

ParseAddress(s) == addressOf(TrimSpace(s), AngleAddr(TrimSpace(s)))

recipientOf(part, addr) ==
    IF part = "" THEN << >>
    ELSE IF addr.ok /\ addr.s # "" THEN <<ToLower(addr.s)>>
    ELSE <<ToLower(part)>>

RECURSIVE splitParts(_)
splitParts(parts) ==
    IF Len(parts) = 0 THEN << >>
    ELSE recipientOf(TrimSpace(parts[1]), ParseAddress(parts[1])) \o splitParts(Tail(parts))

splitRecipients(input) == splitParts(Split(input, ","))

\* the recipients collectRecipients reads from one value of to, cc or bcc
RECURSIVE recipientsOfItems(_)
recipientsOfItems(items) ==
    IF Len(items) = 0 THEN << >>
    ELSE IF items[1].t = "str" THEN <<items[1].v>> \o recipientsOfItems(Tail(items))
    ELSE recipientsOfItems(Tail(items))

\* the strings collectRecipients splits: the values of to, cc and bcc that are
\* strings, and the string elements of those that are lists
recipientStrings(params, key) ==
    IF ~Has(params, key) THEN << >>
    ELSE IF params[key].t = "str" THEN <<params[key].v>>
    ELSE IF params[key].t = "list" THEN recipientsOfItems(params[key].v)
    ELSE << >>

RECURSIVE splitEach(_)
splitEach(inputs) ==
    IF Len(inputs) = 0 THEN << >> ELSE splitRecipients(inputs[1]) \o splitEach(Tail(inputs))

nonEmpty(list) == IF Len(list) = 0 THEN NoSlice ELSE [ok |-> TRUE, l |-> list]

collectRecipients(params) ==
    nonEmpty(splitEach(recipientStrings(params, "to") \o recipientStrings(params, "cc")
                       \o recipientStrings(params, "bcc")))

recipientsAllowed(recipients, allowed) ==
    \A i \in 1..Len(recipients) : ToLower(recipients[i]) \in LowerSet(allowed)

reasonFor(recipients, allowed) ==
    IF ~recipients.ok THEN "recipients_missing"
    ELSE IF ~recipientsAllowed(recipients.l, allowed) THEN "recipient_not_allowed"
    ELSE ""

draftSendReason(p, params) ==
    IF ~p.HasGmail THEN ""
    ELSE IF p.Gmail.DraftOnly THEN "policy"
    ELSE IF Len(p.Gmail.AllowedSendRecipients) = 0 THEN ""
    ELSE reasonFor(collectRecipients(params), p.Gmail.AllowedSendRecipients)

DraftSendRequired(p, params) == p.HasGmail /\ draftSendReason(p, params) # ""

sendFor(reason, params, warnings) ==
    IF reason # "" THEN RwOk(params, Append(warnings, "draft_only:" \o reason))
    ELSE RwOk(params, warnings)

\* no parameter refused
rewriteGmailSendLax(p, params, warnings) ==
    sendFor(draftSendReason(p, params), params, warnings)

rewriteGmailSend(p, params, warnings) ==
    IF ~p.HasGmail THEN RwErr("gmail policy missing")
    ELSE IF Has(params, "track") THEN RwErr("tracking is not allowed")
    ELSE IF Has(params, "track_split") THEN RwErr("tracking is not allowed")
    ELSE IF Has(params, "reply_all") THEN RwErr("reply_all is not allowed")
    ELSE IF Has(params, "thread_id") /\ p.Gmail.DraftOnly
    THEN RwErr("thread_id is not supported in draft_only mode")
    ELSE IF Has(params, "attach") /\ ~p.Gmail.AllowAttachments
    THEN RwErr("attachments are not allowed")
    ELSE sendFor(draftSendReason(p, params), params, warnings)

rewriteGmailDraftCreate(p, params, warnings) ==
    IF ~p.HasGmail THEN RwErr("gmail policy missing")
    ELSE IF Has(params, "track") THEN RwErr("tracking is not allowed")
    ELSE IF Has(params, "track_split") THEN RwErr("tracking is not allowed")
    ELSE IF Has(params, "reply_all") THEN RwErr("reply_all is not allowed")
    ELSE IF Has(params, "thread_id") THEN RwErr("thread_id is not supported for draft creation")
    ELSE IF Has(params, "attach") /\ ~p.Gmail.AllowAttachments
    THEN RwErr("attachments are not allowed")
    ELSE RwOk(params, warnings)

readLabel(p, params, label, err, warnings) ==
    IF err # "" THEN RwErr(err) ELSE RwOk(Put(params, "label", JStr(label)), warnings)

getLabel(p, params, label, warnings) ==
    IF ~label.ok \/ TrimSpace(label.s) = "" THEN RwErr("params.label is required")
    ELSE readLabel(p, params, TrimSpace(label.s),
                   validateLabels(p, <<TrimSpace(label.s)>>, p.Gmail.AllowedReadLabels, "read",
                                  TRUE),
                   warnings)

rewriteGmailLabelsGet(p, params, warnings) ==
    getLabel(p, params, getStringAny(params, <<"label", "label_id", "id">>), warnings)

modifyThreads(p, params, slice, tid, warnings) ==
    IF ~slice.ok /\ ~tid.ok THEN RwErr("params.thread_ids is required")
    ELSE modifyLabels(p, Put(params, "thread_ids",
                             GoStrings(IF slice.ok THEN slice.l ELSE <<tid.s>>)),
                      getStringSlice(params, "add").l, getStringSlice(params, "remove").l,
                      warnings)

rewriteGmailLabelsModify(p, params, warnings) ==
    modifyThreads(p, params, getStringSlice(params, "thread_ids"),
                  getStringAny(params, <<"thread_id", "id">>), warnings)

----------------------------------------------------------------------------
(* timerange: relative and absolute time expressions *)

Time(t, off) == [ok |-> TRUE, t |-> t, off |-> off]

\* t.AddDate(0, 0, days) in a zone of fixed offset
AddDays(x, days) == Time(x.t + days * SecondsPerDay, x.off)

startOfDay(x) == Time(((x.t + x.off) \div SecondsPerDay) * SecondsPerDay - x.off, x.off)

\* 23:59:59.999999999 of the day; the model's times are whole seconds
endOfDay(x) == Time(startOfDay(x).t + SecondsPerDay - 1, x.off)

startOfWeek(x, weekStart) ==
    startOfDay(AddDays(x, -((Weekday(x.t + x.off) - weekStart + 7) % 7)))

endOfWeek(x, weekStart) == endOfDay(AddDays(startOfWeek(x, weekStart), 6))

\* the weekdays map of parseWeekday; 7 when the name is not a key
weekdays(name) ==
    IF name \in {"sunday", "sun"} THEN 0
    ELSE IF name \in {"monday", "mon"} THEN 1
    ELSE IF name \in {"tuesday", "tue"} THEN 2
    ELSE IF name \in {"wednesday", "wed"} THEN 3
    ELSE IF name \in {"thursday", "thu"} THEN 4
    ELSE IF name \in {"friday", "fri"} THEN 5
    ELSE IF name \in {"saturday", "sat"} THEN 6
    ELSE 7

daysUntil(diff, next) == IF diff < 0 \/ (diff = 0 /\ next) THEN diff + 7 ELSE diff

weekdayAfter(x, next, targetDay) ==
    IF targetDay = 7 THEN NoTime
    ELSE startOfDay(AddDays(x, daysUntil(targetDay - Weekday(x.t + x.off), next)))

parseWeekday(expr, x) ==
    weekdayAfter(x, HasPrefix(TrimSpace(expr), "next "),
                 weekdays(TrimPrefix(TrimSpace(expr), "next ")))

weekStartOf(value) ==
    IF value = "" THEN [err |-> "", d |-> 1]
    ELSE IF weekdays(value) # 7 THEN [err |-> "", d |-> weekdays(value)]
    ELSE [err |-> "invalid week start \"" \o value \o "\"", d |-> 1]

resolveWeekStart(value) == weekStartOf(TrimSpace(ToLower(value)))

\* the clock of the layouts "2006-01-02", "2006-01-02T15:04:05" and "2006-01-02 15:04"
clockOfLayout(expr) ==
    IF Len(expr) = 10 THEN TimeAt(0)
    ELSE IF Len(expr) = 19 /\ Chr(expr, 11) = "T" THEN ParseClock(SubSeq(expr, 12, 19))
    ELSE IF Len(expr) = 16 /\ Chr(expr, 11) = " " THEN ParseClock(SubSeq(expr, 12, 16) \o ":00")
    ELSE NoTime

localTime(d, c, loc) == IF d.ok /\ c.ok THEN Time(d.t + c.t - loc, loc) ELSE NoTime

\* time.ParseInLocation for the layouts "2006-01-02", "2006-01-02T15:04:05" and
\* "2006-01-02 15:04" in a zone of fixed offset loc
ParseInLocation(expr, loc) == localTime(ParseDateAt(expr), clockOfLayout(expr), loc)

firstOk(a, b) == IF a.ok THEN a ELSE b

\* time.Parse with time.RFC3339 and then with "2006-01-02T15:04:05-0700"
parseZoned(val) == firstOk(ParseDateTimeZone(val, TRUE), ParseDateTimeZone(val, FALSE))

\* the relative forms of parseTimeExpr, and otherwise what the local layouts give
relativeTime(exprLower, x, otherwise) ==
    IF exprLower = "now" THEN x
    ELSE IF exprLower = "today" THEN startOfDay(x)
    ELSE IF exprLower = "tomorrow" THEN startOfDay(AddDays(x, 1))
    ELSE IF exprLower = "yesterday" THEN startOfDay(AddDays(x, -1))
    ELSE firstOk(parseWeekday(exprLower, x), otherwise)

parseTrimmed(expr, x, loc) ==
    firstOk(parseZoned(expr), relativeTime(ToLower(expr), x, ParseInLocation(expr, loc)))

parseTimeExpr(expr, x, loc) == parseTrimmed(TrimSpace(expr), x, loc)

cannotParse(flag, expr) ==
    "invalid --" \o flag \o ": cannot parse \"" \o TrimSpace(expr) \o "\" as time"

Range(from, to) == [err |-> "", From |-> from, To |-> to]

NoRange(msg) == [err |-> msg, From |-> NoTime, To |-> NoTime]

\* the default branch of Resolve: from is what flags.From gave
rangeFrom(from, x, flags, defaults) ==
    IF ~from.ok THEN NoTime
    ELSE IF flags.To # "" THEN parseTimeExpr(flags.To, x, x.off)
    ELSE IF flags.From # "" /\ defaults.ToFromOffset # 0
    THEN Time(from.t + defaults.ToFromOffset, from.off)
    ELSE Time(x.t + defaults.ToOffset, x.off)

rangeOf(from, to, flags) ==
    IF ~from.ok THEN NoRange(cannotParse("from", flags.From))
    ELSE IF ~to.ok THEN NoRange(cannotParse("to", flags.To))
    ELSE Range(from, to)

explicitRange(from, x, flags, defaults) ==
    rangeOf(from, rangeFrom(from, x, flags, defaults), flags)

\* Resolve for now in the zone (x) and the resolved week start
resolveIn(x, weekStart, flags, defaults) ==
    IF weekStart.err # "" THEN NoRange(weekStart.err)
    ELSE IF flags.Today THEN Range(startOfDay(x), endOfDay(x))
    ELSE IF flags.Tomorrow THEN Range(startOfDay(AddDays(x, 1)), endOfDay(AddDays(x, 1)))
    ELSE IF flags.Week THEN Range(startOfWeek(x, weekStart.d), endOfWeek(x, weekStart.d))
    ELSE IF flags.Days > 0 THEN Range(startOfDay(x), endOfDay(AddDays(x, flags.Days - 1)))
    ELSE explicitRange(IF flags.From # "" THEN parseTimeExpr(flags.From, x, x.off)
                       ELSE Time(x.t + defaults.FromOffset, x.off),
                       x, flags, defaults)

\* timerange.Resolve; t is time.Now() as whole seconds, loc the zone's offset
Resolve(t, loc, flags, defaults) ==
    resolveIn(Time(t, loc), resolveWeekStart(flags.WeekStart), flags, defaults)

----------------------------------------------------------------------------
(* gog: the runner that invokes the upstream CLI *)

\* the characters of keys and labels in byte order
ByteOrder == " %+-./0123456789:@ABCDEFGHIJKLMNOPQRSTUVWXYZ[]_abcdefghijklmnopqrstuvwxyz"

\* the rank of a character in byte order; 0 for one the model does not use
ByteRank(c) ==
    IF \E i \in 1..Len(ByteOrder) : SubSeq(ByteOrder, i, i) = c
    THEN CHOOSE i \in 1..Len(ByteOrder) : SubSeq(ByteOrder, i, i) = c
    ELSE 0

RECURSIVE StrLess(_, _)
StrLess(a, b) ==
    IF b = "" THEN FALSE
    ELSE IF a = "" THEN TRUE
    ELSE IF SubSeq(a, 1, 1) = SubSeq(b, 1, 1) THEN StrLess(Tail(a), Tail(b))
    ELSE ByteRank(SubSeq(a, 1, 1)) < ByteRank(SubSeq(b, 1, 1))

Least(S) == CHOOSE x \in S : \A y \in S \ {x} : StrLess(x, y)

\* sort.Strings of the elements of a set
RECURSIVE SortStrings(_)
SortStrings(S) == IF S = {} THEN << >> ELSE <<Least(S)>> \o SortStrings(S \ {Least(S)})

Flags3 == <<<<"max", "--max">>, <<"page", "--page">>, <<"oldest", "--oldest">>>>

AddRemove == <<<<"add", "--add">>, <<"remove", "--remove">>>>

DraftFlags ==
    <<<<"to", "--to">>, <<"cc", "--cc">>, <<"bcc", "--bcc">>, <<"subject", "--subject">>,
      <<"body", "--body">>, <<"body_html", "--body-html">>,
      <<"reply_to_message_id", "--reply-to-message-id">>>>

ActionSpec(command, positional, paramFlags, multi) ==
    [Command |-> command, Positional |-> positional, ParamFlags |-> paramFlags,
     MultiValueFlag |-> multi]

Attach == <<<<"attach", "--attach">>>>

\* the command mapping; ParamFlags and MultiValueFlag are Go maps, ranged over here
\* in the order of the source text
actionSpecs ==
    [gmail_search |-> ActionSpec(<<"gmail", "search">>, <<"query">>, Flags3, << >>),
     gmail_thread_list |-> ActionSpec(<<"gmail", "search">>, <<"query">>, Flags3, << >>),
     gmail_thread_get |-> ActionSpec(<<"gmail", "thread", "get">>, <<"thread_id">>, << >>, << >>),
     gmail_thread_modify |->
        ActionSpec(<<"gmail", "thread", "modify">>, <<"thread_id">>, AddRemove, << >>),
     gmail_get |-> ActionSpec(<<"gmail", "get">>, <<"message_id">>,
                              <<<<"format", "--format">>, <<"headers", "--headers">>>>, << >>),
     gmail_send |->
        ActionSpec(<<"gmail", "send">>, << >>,
                   DraftFlags \o <<<<"thread_id", "--thread-id">>, <<"reply_all", "--reply-all">>,
                                   <<"reply_to", "--reply-to">>, <<"from", "--from">>,
                                   <<"track", "--track">>, <<"track_split", "--track-split">>>>,
                   Attach),
     gmail_drafts_create |->
        ActionSpec(<<"gmail", "drafts", "create">>, << >>,
                   DraftFlags \o <<<<"reply_to", "--reply-to">>, <<"from", "--from">>>>, Attach),
     gmail_labels_list |-> ActionSpec(<<"gmail", "labels", "list">>, << >>, << >>, << >>),
     gmail_labels_get |-> ActionSpec(<<"gmail", "labels", "get">>, <<"label">>, << >>, << >>),
     gmail_labels_modify |->
        ActionSpec(<<"gmail", "labels", "modify">>, <<"thread_ids">>, AddRemove, << >>),
     calendar_list |-> ActionSpec(<<"calendar", "calendars">>, << >>,
                                  <<<<"max", "--max">>, <<"page", "--page">>>>, << >>),
     calendar_events |->
        ActionSpec(<<"calendar", "events">>, <<"calendar_id">>,
                   <<<<"time_min", "--from">>, <<"time_max", "--to">>, <<"max", "--max">>,
                     <<"page", "--page">>, <<"query", "--query">>>>, << >>),
     calendar_freebusy |->
        ActionSpec(<<"calendar", "freebusy">>, <<"calendar_ids">>,
                   <<<<"time_min", "--from">>, <<"time_max", "--to">>>>, << >>)]

\* the key of actionSpecs for an action name: its dots as underscores
RECURSIVE SpecKey(_)
SpecKey(action) ==
    IF action = "" THEN ""
    ELSE (IF Chr(action, 1) = "." THEN "_" ELSE Chr(action, 1)) \o SpecKey(Tail(action))

NoVals(msg) == [err |-> msg, vals |-> << >>]

Vals(vals) == [err |-> "", vals |-> vals]

\* the values of a list: the first error among its items', or all their values
valsOf(head, rest) ==
    IF head.err # "" THEN head
    ELSE IF rest.err # "" THEN rest
    ELSE Vals(head.vals \o rest.vals)

RECURSIVE normalizeValue(_)
RECURSIVE normalizeItems(_)
normalizeItems(items) ==
    IF Len(items) = 0 THEN Vals(<< >>)
    ELSE valsOf(normalizeValue(items[1]), normalizeItems(Tail(items)))

normalizeValue(val) ==
    IF val.t = "str" THEN Vals(<<val.v>>)
    ELSE IF val.t = "num" THEN Vals(<<Itoa(val.v)>>)
    ELSE IF val.t = "bool" THEN Vals(<<IF val.v THEN "true" ELSE "false">>)
    ELSE IF val.t = "list" THEN normalizeItems(val.v)
    ELSE IF val.t = "null" THEN NoVals("unsupported value type <nil>")
    ELSE IF val.t = "gostrings" THEN NoVals("unsupported value type []string")
    ELSE NoVals("unsupported value type map[string]interface {}")

positionalOf(key, n) ==
    IF n.err # "" THEN n
    ELSE IF Len(n.vals) = 0 THEN NoVals("empty value")
    ELSE IF key = "calendar_ids" THEN Vals(<<Join(n.vals, ",")>>)
    ELSE n

normalizePositional(key, val) == positionalOf(key, normalizeValue(val))

BuiltArgs(args, seen) == [err |-> "", args |-> args, seen |-> seen]

ArgsErr(msg) == [err |-> msg, args |-> << >>, seen |-> {}]

\* the arguments of one key followed by those of the rest; flagged: the arguments
\* the key's values give
argsOf(key, argVals, flagged, rest) ==
    IF argVals.err # "" THEN ArgsErr("param " \o key \o ": " \o argVals.err)
    ELSE IF rest.err # "" THEN rest
    ELSE BuiltArgs(flagged \o rest.args, {key} \cup rest.seen)

positionalArg(key, argVals, rest) == argsOf(key, argVals, argVals.vals, rest)

RECURSIVE positionalArgs(_, _)
positionalArgs(keys, params) ==
    IF Len(keys) = 0 THEN BuiltArgs(<< >>, {})
    ELSE IF ~Has(params, keys[1]) THEN ArgsErr("missing required param: " \o keys[1])
    ELSE positionalArg(keys[1], normalizePositional(keys[1], params[keys[1]]),
                       positionalArgs(Tail(keys), params))

\* a flag of ParamFlags: a bool gives the bare flag when true, any other value the
\* flag and its first normalized value
paramFlagArg(key, flag, val, argVals, rest) ==
    IF val.t = "bool" THEN argsOf(key, Vals(<< >>), IF val.v THEN <<flag>> ELSE << >>, rest)
    ELSE IF argVals.err = "" /\ Len(argVals.vals) = 0 THEN rest
    ELSE argsOf(key, argVals, <<flag, argVals.vals[1]>>, rest)

RECURSIVE paramFlagArgs(_, _)
paramFlagArgs(flags, params) ==
    IF Len(flags) = 0 THEN BuiltArgs(<< >>, {})
    ELSE IF ~Has(params, flags[1][1]) THEN paramFlagArgs(Tail(flags), params)
    ELSE paramFlagArg(flags[1][1], flags[1][2], params[flags[1][1]],
                      normalizeValue(params[flags[1][1]]), paramFlagArgs(Tail(flags), params))

RECURSIVE flagEach(_, _)
flagEach(flag, vals) ==
    IF Len(vals) = 0 THEN << >> ELSE <<flag, vals[1]>> \o flagEach(flag, Tail(vals))

multiValueArg(key, flag, argVals, rest) == argsOf(key, argVals, flagEach(flag, argVals.vals), rest)

RECURSIVE multiValueArgs(_, _)
multiValueArgs(flags, params) ==
    IF Len(flags) = 0 THEN BuiltArgs(<< >>, {})
    ELSE IF ~Has(params, flags[1][1]) THEN multiValueArgs(Tail(flags), params)
    ELSE multiValueArg(flags[1][1], flags[1][2], normalizeValue(params[flags[1][1]]),
                       multiValueArgs(Tail(flags), params))

FlagKeys(flags) == {flags[i][1] : i \in 1..Len(flags)}

\* the keys of params that are no positional, flag or multi-value key of the spec
unknownKeys(spec, params, pos) ==
    DOMAIN params \ (pos.seen \cup FlagKeys(spec.ParamFlags) \cup FlagKeys(spec.MultiValueFlag))

builtFrom(pos, named, multi, unknown) ==
    IF pos.err # "" THEN pos
    ELSE IF named.err # "" THEN named
    ELSE IF multi.err # "" THEN multi
    ELSE IF unknown # {} THEN ArgsErr("unknown params: " \o Join(SortStrings(unknown), ", "))
    ELSE BuiltArgs(pos.args \o named.args \o multi.args, {})

withPositional(spec, params, pos) ==
    builtFrom(pos, paramFlagArgs(spec.ParamFlags, params),
              multiValueArgs(spec.MultiValueFlag, params), unknownKeys(spec, params, pos))

buildArgs(spec, params) ==
    withPositional(spec, params, positionalArgs(spec.Positional, params))

\* what the upstream process did: failed (exit status, timeout or output that is
\* not JSON), or printed the JSON value data
\* what the failing upstream process wrote to its standard error
Stderr == "token s3cret"

Failed == [fail |-> TRUE, data |-> JNull, stderr |-> Stderr]

Printed(data) == [fail |-> FALSE, data |-> data, stderr |-> ""]

truncate(s, max) == IF Len(s) <= max THEN s ELSE SubSeq(s, 1, max)

\* the error Run makes of a failed cmd.Run: the exit error and the head of stderr
gogFailed(stderr) == "gog failed: exit status 1: " \o truncate(stderr, 256)

Ran(err, data, made) == [err |-> err, data |-> data, calls |-> made]

\* the invocation: gog [--account a] --json --no-input <command> <args>
baseArgs(account, spec, args) ==
    (IF account # "" THEN <<"--account", account>> ELSE << >>)
    \o <<"--json", "--no-input">> \o spec.Command \o args

runBuilt(account, spec, args, out) ==
    IF args.err # "" THEN Ran(args.err, JNull, << >>)
    ELSE IF out.fail
    THEN Ran(gogFailed(out.stderr), JNull, <<baseArgs(account, spec, args.args)>>)
    ELSE Ran("", out.data, <<baseArgs(account, spec, args.args)>>)

runSpec(account, spec, params, out) == runBuilt(account, spec, buildArgs(spec, params), out)

\* GogRunner.Run for the runner of an account; out is the upstream's outcome, used
\* when the arguments are built; calls is the argument lists of the invocations made
Run(account, action, params, out) ==
    IF SpecKey(action) \notin DOMAIN actionSpecs
    THEN Ran("no command mapping for action: " \o action, JNull, << >>)
    ELSE runSpec(account, actionSpecs[SpecKey(action)], params, out)

----------------------------------------------------------------------------
(* internal/policy: calendar ranges; cmd/broker: the time-zone provider *)

absoluteOf(val) == IF val = "" THEN NoTime ELSE parseZoned(val)

parseAbsoluteTime(val) == absoluteOf(TrimSpace(val))

Location(err, loc) == [err |-> err, loc |-> loc]

\* time.LoadLocation on the zone names the model's calendar lists carry
LoadLocation(name) ==
    IF name = "UTC" THEN Location("", 0)
    ELSE IF name = "Etc/GMT-2" THEN Location("", 2 * 3600)
    ELSE Location("unknown time zone " \o name, 0)

isPrimary(m) == Has(m.v, "primary") /\ m.v["primary"] = JBool(TRUE)

timeZoneOf(m) ==
    IF Has(m.v, "timeZone") /\ m.v["timeZone"].t = "str" THEN m.v["timeZone"].v ELSE ""

\* whether the item gives a time zone: a map with one, primary when primaryOnly
givesTimeZone(m, primaryOnly) ==
    m.t = "map" /\ (~primaryOnly \/ isPrimary(m)) /\ timeZoneOf(m) # ""

\* the timeZone of the first item of items that has one, among the primary ones only
\* when primaryOnly; "" when there is none
RECURSIVE firstTimeZone(_, _)
firstTimeZone(items, primaryOnly) ==
    IF Len(items) = 0 THEN ""
    ELSE IF givesTimeZone(items[1], primaryOnly) THEN timeZoneOf(items[1])
    ELSE firstTimeZone(Tail(items), primaryOnly)

orElse(a, b) == IF a # "" THEN a ELSE b

Provided(err, loc, made) == [err |-> err, loc |-> loc, calls |-> made]

locationFor(timeZone, made) ==
    IF timeZone = "" THEN Provided("invalid calendar list response", 0, made)
    ELSE Provided(LoadLocation(timeZone).err, LoadLocation(timeZone).loc, made)

zoneOfList(data, made) ==
    IF data.t # "map" THEN Provided("invalid calendar list response", 0, made)
    ELSE IF ~Has(data.v, "calendars") THEN Provided("invalid calendar list response", 0, made)
    ELSE IF data.v["calendars"].t # "list"
    THEN Provided("invalid calendar list response", 0, made)
    ELSE locationFor(orElse(firstTimeZone(data.v["calendars"].v, TRUE),
                            firstTimeZone(data.v["calendars"].v, FALSE)), made)

zoneOfRun(run) ==
    IF run.err # "" THEN Provided(run.err, 0, run.calls) ELSE zoneOfList(run.data, run.calls)

\* the function calendarTimeZoneProvider returns, for a runner of the given account
calendarTimeZoneProvider(account, out) ==
    zoneOfRun(Run(account, "calendar.list", [max |-> JNum(250)], out))

\* cleanupTimeParams calls itself without a base case: the goroutine's stack
\* overflows, which ends the process
Crashed(made) ==
    [err |-> "", params |-> EmptyMap, warnings |-> << >>, calls |-> made, crash |-> TRUE]

RwErrAfter(msg, made) ==
    [err |-> msg, params |-> EmptyMap, warnings |-> << >>, calls |-> made, crash |-> FALSE]

RwOkAfter(params, warnings, made) ==
    [err |-> "", params |-> params, warnings |-> warnings, calls |-> made, crash |-> FALSE]

RECURSIVE DeleteAll(_, _)
DeleteAll(m, keys) == IF Len(keys) = 0 THEN m ELSE DeleteAll(Delete(m, keys[1]), Tail(keys))

TimeKeys ==
    <<"from", "to", "time_min", "time_max", "today", "tomorrow", "week", "days", "week_start">>

stringOr(g) == IF g.ok THEN g.s ELSE ""

boolOr(g) == g.ok /\ g.b

intOr(g) == IF g.ok THEN g.n ELSE 0

\* the timerange.Flags resolveCalendarRange reads from the params
timeFlags(params) ==
    [From |-> stringOr(getStringAny(params, <<"time_min", "from">>)),
     To |-> stringOr(getStringAny(params, <<"time_max", "to">>)),
     Today |-> boolOr(getBool(params, "today")),
     Tomorrow |-> boolOr(getBool(params, "tomorrow")),
     Week |-> boolOr(getBool(params, "week")),
     Days |-> intOr(getInt(params, "days")),
     WeekStart |-> stringOr(getString(params, "week_start"))]

hasTimeFlags(flags) ==
    flags.From # "" \/ flags.To # "" \/ flags.Today \/ flags.Tomorrow \/ flags.Week
    \/ flags.Days > 0

needsTZ(flags) ==
    flags.Today \/ flags.Tomorrow \/ flags.Week \/ flags.Days > 0 \/ flags.From = ""
    \/ flags.To = ""

defaultDays(maxDays) == IF maxDays > 0 /\ maxDays < 7 THEN maxDays ELSE 7

rangeDefaults(window) == [FromOffset |-> 0, ToOffset |-> window, ToFromOffset |-> window]

\* the checks on a range from..to (in seconds), then what follows them
\* a range that is never refused
checkedRangeNever(maxDays, from, to, made, then) == then

checkedRange(maxDays, from, to, made, then) ==
    IF to < from THEN RwErrAfter("params.time_max must be after time_min", made)
    ELSE IF maxDays > 0 /\ to - from > maxDays * SecondsPerDay
    THEN RwErrAfter("calendar range exceeds max_days", made)
    ELSE then

withRange(p, params, tr, made) ==
    IF tr.err # "" THEN RwErrAfter(tr.err, made)
    ELSE checkedRange(p.Calendar.MaxDays, tr.From.t, tr.To.t, made,
                      RwOkAfter(Put(Put(DeleteAll(params, TimeKeys), "time_min",
                                        JStr(FormatRFC3339(tr.From))),
                                    "time_max", JStr(FormatRFC3339(tr.To))),
                                << >>, made))

inZone(p, params, flags, t, tz) ==
    IF tz.err # "" THEN RwErrAfter(tz.err, tz.calls)
    ELSE withRange(p, params,
                   Resolve(t, tz.loc, flags,
                           rangeDefaults(defaultDays(p.Calendar.MaxDays) * SecondsPerDay)),
                   tz.calls)

\* the branch for two absolute bounds, taken when both parse
absoluteRange(p, fromAbs, toAbs, otherwise) ==
    IF fromAbs.ok /\ toAbs.ok
    THEN checkedRange(p.Calendar.MaxDays, fromAbs.t, toAbs.t, << >>, Crashed(<< >>))
    ELSE otherwise

rangeFor(p, params, flags, require, t, tzAccount, tzOut) ==
    IF require /\ ~hasTimeFlags(flags)
    THEN RwErr("params.time_min and params.time_max are required")
    ELSE IF ~needsTZ(flags)
    THEN absoluteRange(p, parseAbsoluteTime(flags.From), parseAbsoluteTime(flags.To),
                       inZone(p, params, flags, t, calendarTimeZoneProvider(tzAccount, tzOut)))
    ELSE inZone(p, params, flags, t, calendarTimeZoneProvider(tzAccount, tzOut))

\* resolveCalendarRange: t is time.Now(), tzAccount the account of the provider's
\* runner and tzOut what the upstream answers if the provider asks it
resolveCalendarRange(p, params, require, t, tzAccount, tzOut) ==
    IF ~p.HasCalendar THEN RwErr("calendar policy missing")
    ELSE rangeFor(p, params, timeFlags(params), require, t, tzAccount, tzOut)

calendarAllowed(p, id) ==
    ~(p.HasCalendar /\ Len(p.Calendar.AllowedCalendars) > 0)
    \/ stringInSlice(id, p.Calendar.AllowedCalendars)

eventsOf(p, cal, warnings, range) ==
    IF ~cal.ok THEN RwErr("params.calendar_id is required")
    ELSE IF ~calendarAllowed(p, cal.s) THEN RwErr("calendar_id is not allowed")
    ELSE IF range.err # "" \/ range.crash THEN range
    ELSE RwOkAfter(range.params, warnings \o range.warnings, range.calls)

rewriteCalendarEvents(p, params, warnings, t, tzAccount, tzOut) ==
    eventsOf(p, getString(params, "calendar_id"), warnings,
             resolveCalendarRange(p, params, FALSE, t, tzAccount, tzOut))

freeBusyOf(p, calIDs, warnings, range) ==
    IF ~calIDs.ok THEN RwErrAfter("params.calendar_ids is required", range.calls)
    ELSE IF \E i \in 1..Len(calIDs.l) : ~calendarAllowed(p, calIDs.l[i])
    THEN RwErrAfter("calendar_ids contains disallowed calendar", range.calls)
    ELSE RwOkAfter(range.params, warnings \o range.warnings, range.calls)

ranged(p, warnings, range) ==
    IF range.err # "" \/ range.crash THEN range
    ELSE freeBusyOf(p, getStringSlice(range.params, "calendar_ids"), warnings, range)

rewriteCalendarFreeBusy(p, params, warnings, t, tzAccount, tzOut) ==
    ranged(p, warnings, resolveCalendarRange(p, params, TRUE, t, tzAccount, tzOut))

----------------------------------------------------------------------------
(* internal/policy: ValidateAndRewrite *)

\* a broker that checks no allowlist
IsActionAllowedAny(p, action) == TRUE

IsActionAllowed(p, action) == action \in p.allowedActionSet

\* t, tzAccount and tzOut as in resolveCalendarRange
ValidateAndRewrite(p, action, params, t, tzAccount, tzOut) ==
    IF action \in {"gmail.search", "gmail.thread.list"} THEN rewriteGmailQuery(p, params, << >>, t)
    ELSE IF action = "gmail.thread.get" THEN rewriteGmailThreadGet(p, params, << >>)
    ELSE IF action = "gmail.thread.modify" THEN rewriteGmailThreadModify(p, params, << >>)
    ELSE IF action = "gmail.get" THEN rewriteGmailGet(p, params, << >>)
    ELSE IF action = "gmail.send" THEN rewriteGmailSend(p, params, << >>)
    ELSE IF action = "gmail.drafts.create" THEN rewriteGmailDraftCreate(p, params, << >>)
    ELSE IF action \in {"gmail.labels.list", "calendar.list"} THEN RwOk(params, << >>)
    ELSE IF action = "gmail.labels.get" THEN rewriteGmailLabelsGet(p, params, << >>)
    ELSE IF action = "gmail.labels.modify" THEN rewriteGmailLabelsModify(p, params, << >>)
    ELSE IF action = "calendar.events"
    THEN rewriteCalendarEvents(p, params, << >>, t, tzAccount, tzOut)
    ELSE IF action = "calendar.freebusy"
    THEN rewriteCalendarFreeBusy(p, params, << >>, t, tzAccount, tzOut)
    ELSE IF action = "policy.actions"
    THEN (IF DOMAIN params # {} THEN RwErr("params must be empty") ELSE RwOk(params, << >>))
    ELSE RwErr("unsupported action: " \o action)

----------------------------------------------------------------------------
(* internal/redact: what the broker strips from the upstream's answer *)

\* \s of the regexp package
IsReSpace(c) == c \in {" ", "\t", "\n", "\r", "\f"}

\* the length of the longest run of \S that starts at s[j]
NonSpaceRun(s, j) ==
    Min({k \in j..(Len(s) + 1) : k > Len(s) \/ IsReSpace(Chr(s, k))}) - j

schemeLen(s) == IF HasPrefix(s, "https://") THEN 8 ELSE IF HasPrefix(s, "http://") THEN 7 ELSE 0

matchOf(scheme, rest) == IF scheme > 0 /\ rest > 0 THEN scheme + rest ELSE 0

afterScheme(s, scheme) == matchOf(scheme, NonSpaceRun(s, scheme + 1))

\* the length of the match of urlRe (https?://\S+) at the head of s; 0 when none
urlMatchLen(s) == afterScheme(s, schemeLen(s))

\* where the leftmost match of urlRe in s starts; Len(s) + 1 when there is none
urlStart(s) ==
    Min({i \in 1..(Len(s) + 1) : i > Len(s) \/ urlMatchLen(SubSeq(s, i, Len(s))) > 0})

\* urlRe.ReplaceAllString(s, "[redacted]"): match after match, leftmost first
RECURSIVE replaceURLs(_)
RECURSIVE replaceAt(_, _)
replaceAt(s, i) ==
    IF i > Len(s) THEN s
    ELSE SubSeq(s, 1, i - 1) \o "[redacted]"
         \o replaceURLs(SubSeq(s, i + urlMatchLen(SubSeq(s, i, Len(s))), Len(s)))

replaceURLs(s) == replaceAt(s, urlStart(s))

IsLocalChar(c) == IsLetter(c) \/ IsDigit(c) \/ c \in {".", "_", "%", "+", "-"}

IsDomainChar(c) == IsLetter(c) \/ IsDigit(c) \/ c \in {".", "-"}

\* the lengths of the longest runs of [A-Z0-9._%+-], [A-Z0-9.-] and [A-Z] (all
\* case-insensitive) that start at s[j]
LocalRun(s, j) == Min({k \in j..(Len(s) + 1) : k > Len(s) \/ ~IsLocalChar(Chr(s, k))}) - j

DomainRun(s, j) == Min({k \in j..(Len(s) + 1) : k > Len(s) \/ ~IsDomainChar(Chr(s, k))}) - j

LetterRun(s, j) == Min({k \in j..(Len(s) + 1) : k > Len(s) \/ ~IsLetter(Chr(s, k))}) - j

\* the last dot of the domain run after the @ at s[at] that two letters follow;
\* 0 when there is none
lastDot(s, at, run) ==
    Max({0} \cup {d \in (at + 2)..(at + run) : Chr(s, d) = "." /\ LetterRun(s, d + 1) >= 2})

emailEnd(s, dot) == IF dot = 0 THEN 0 ELSE dot + LetterRun(s, dot + 1)

afterLocal(s, local) ==
    IF local > 0 /\ Chr(s, local + 1) = "@"
    THEN emailEnd(s, lastDot(s, local + 1, DomainRun(s, local + 2)))
    ELSE 0

\* the length of the match of emailRe at the head of s; 0 when none
emailMatchLen(s) == afterLocal(s, LocalRun(s, 1))

\* the function maskEmails hands to ReplaceAllStringFunc
maskParts(match, parts, allowed) ==
    IF Len(parts) # 2 THEN "[redacted]"
    ELSE IF ToLower(parts[2]) \in allowed THEN match
    ELSE "[redacted]"

maskMatch(match, allowed) == maskParts(match, Split(match, "@"), allowed)

\* where the leftmost match of emailRe in s starts; Len(s) + 1 when there is none
emailStart(s) ==
    Min({i \in 1..(Len(s) + 1) : i > Len(s) \/ emailMatchLen(SubSeq(s, i, Len(s))) > 0})

\* emailRe.ReplaceAllStringFunc: match after match, leftmost first
RECURSIVE maskFrom(_, _)
RECURSIVE maskAt(_, _, _)
maskAt(s, i, allowed) ==
    IF i > Len(s) THEN s
    ELSE SubSeq(s, 1, i - 1)
         \o maskMatch(SubSeq(s, i, i - 1 + emailMatchLen(SubSeq(s, i, Len(s)))), allowed)
         \o maskFrom(SubSeq(s, i + emailMatchLen(SubSeq(s, i, Len(s))), Len(s)), allowed)

maskFrom(s, allowed) == maskAt(s, emailStart(s), allowed)

maskEmails(input, allowedDomains) ==
    maskFrom(input, {ToLower(TrimPrefix(allowedDomains[i], "@")) : i \in 1..Len(allowedDomains)})

\* links left where they are
stripLinksNever(s, strip) == s

stripLinks(s, strip) == IF strip THEN replaceURLs(s) ELSE s

maskSenders(s, pol) ==
    IF pol.HasGmail /\ Len(pol.Gmail.AllowedSenders) > 0
    THEN maskEmails(s, pol.Gmail.AllowedSenders) ELSE s

sanitizeString(input, pol) ==
    stripLinks(maskSenders(stripLinks(input, pol.HasGmail /\ ~pol.Gmail.AllowLinks), pol),
               pol.HasCalendar /\ ~pol.Calendar.AllowDetails)

alwaysDropKeys == {"attachment", "attachments"}

bodyKeys == {"body", "payload", "parts", "raw", "html", "htmlbody", "mime", "mimeType"}

snippetKeys == {"snippetHtml", "snippet_html"}

calendarDetailKeys == {"hangoutLink", "conferenceData", "location", "description", "htmlLink"}

\* only the attachment keys dropped
shouldDropAlways(key, pol) == key \in alwaysDropKeys

shouldDropKey(key, pol) ==
    \/ key \in alwaysDropKeys
    \/ key \in snippetKeys
    \/ pol.HasGmail /\ ~pol.Gmail.AllowBody /\ key \in bodyKeys
    \/ pol.HasCalendar /\ ~pol.Calendar.AllowDetails /\ key \in calendarDetailKeys

Clean(val, warnings) == [val |-> val, warnings |-> warnings]

keptKey(key, drop, item, rest) ==
    IF drop THEN Clean(rest.val, <<"redacted:" \o key>> \o rest.warnings)
    ELSE Clean(Put(rest.val, key, item.val), item.warnings \o rest.warnings)

keptItem(head, rest) == Clean(<<head.val>> \o rest.val, head.warnings \o rest.warnings)

cleanMap(kept) == Clean(JMap(kept.val), kept.warnings)

cleanList(kept) == Clean(JList(kept.val), kept.warnings)

cleanString(v, out) == Clean(JStr(out), IF out # v THEN <<"redacted:string">> ELSE << >>)

\* redactAny; a Go map is ranged over in the order of its sorted keys, which fixes
\* the order of the warnings and nothing else
RECURSIVE redactAny(_, _)
RECURSIVE redactKeys(_, _, _)
RECURSIVE redactItems(_, _)
redactKeys(keys, m, pol) ==
    IF Len(keys) = 0 THEN Clean(EmptyMap, << >>)
    ELSE keptKey(keys[1], shouldDropKey(keys[1], pol), redactAny(m[keys[1]], pol),
                 redactKeys(Tail(keys), m, pol))

redactItems(items, pol) ==
    IF Len(items) = 0 THEN Clean(<< >>, << >>)
    ELSE keptItem(redactAny(items[1], pol), redactItems(Tail(items), pol))

redactAny(val, pol) ==
    IF val.t = "map" THEN cleanMap(redactKeys(SortStrings(DOMAIN val.v), val.v, pol))
    ELSE IF val.t = "list" THEN cleanList(redactItems(val.v, pol))
    ELSE IF val.t = "str" THEN cleanString(val.v, sanitizeString(val.v, pol))
    ELSE Clean(val, << >>)

Found(ok) == [found |-> TRUE, ok |-> ok]

NotFound == [found |-> FALSE, ok |-> FALSE]

\* the set hasAllowedLabelIDs builds: the lower-cased entries
FoldSet(allowed) == {ToLower(allowed[i]) : i \in 1..Len(allowed)}

\* what the loop over a label list decides: {} when the list holds no string
labelScan(arr, set) ==
    IF \E i \in 1..Len(arr) : arr[i].t = "str" /\ ToLower(arr[i].v) \in set THEN {Found(TRUE)}
    ELSE IF \E i \in 1..Len(arr) : arr[i].t = "str" THEN {Found(FALSE)}
    ELSE {}

scanAtKey(key, item, set) ==
    IF (EqualFold(key, "labelIds") \/ EqualFold(key, "label_ids")) /\ item.t = "list"
    THEN labelScan(item.v, set) ELSE {}

orDeeper(scan, deeper) == IF scan # {} THEN scan ELSE deeper

\* the results the items visited first allow, and those of the rest when the head
\* can find nothing
headOrRest(head, rest) == {r \in head : r.found} \cup (IF NotFound \in head THEN rest ELSE {})

\* perKey: for each key of a map the results its item allows.  A found result of
\* any key can come first; nothing is found when no key finds anything
anyKey(perKey) ==
    {r \in UNION perKey : r.found}
    \cup (IF \A results \in perKey : NotFound \in results THEN {NotFound} ELSE {})

\* hasAllowedLabelIDs ranges over Go maps, whose order is not fixed: the operator
\* gives every result some order yields
RECURSIVE hasAllowedLabelIDs(_, _)
RECURSIVE hasAllowedInItems(_, _)
RECURSIVE hasAllowedAtKey(_, _, _)
hasAllowedAtKey(key, item, allowed) ==
    orDeeper(scanAtKey(key, item, FoldSet(allowed)), hasAllowedLabelIDs(item, allowed))

hasAllowedInItems(items, allowed) ==
    IF Len(items) = 0 THEN {NotFound}
    ELSE headOrRest(hasAllowedLabelIDs(items[1], allowed), hasAllowedInItems(Tail(items), allowed))

hasAllowedLabelIDs(val, allowed) ==
    IF val.t = "map"
    THEN anyKey({hasAllowedAtKey(k, val.v[k], allowed) : k \in DOMAIN val.v})
    ELSE IF val.t = "list" THEN hasAllowedInItems(val.v, allowed)
    ELSE {NotFound}

RECURSIVE coerceItems(_)
coerceItems(items) ==
    IF Len(items) = 0 THEN << >>
    ELSE (IF items[1].t = "str" /\ TrimSpace(items[1].v) # ""
          THEN <<TrimSpace(items[1].v)>> ELSE << >>) \o coerceItems(Tail(items))

coerceStringList(val) == IF val.t = "list" THEN coerceItems(val.v) ELSE << >>

RECURSIVE extractFrom(_, _)
extractFrom(m, keys) ==
    IF Len(keys) = 0 THEN << >>
    ELSE IF Has(m, keys[1]) /\ Len(coerceStringList(m[keys[1]])) > 0
    THEN coerceStringList(m[keys[1]])
    ELSE extractFrom(m, Tail(keys))

extractLabels(item) ==
    IF item.t = "map" THEN extractFrom(item.v, <<"labels", "labelIds", "label_ids">>) ELSE << >>

\* the lower-cased, trimmed, non-empty entries of a list of labels
LabelSet(allowed) == {ToLower(TrimSpace(allowed[i])) : i \in 1..Len(allowed)} \ {""}

\* the lower-cased names the policy's label map gives for the entries that are ids
namedSet(allowed, pol) ==
    {ToLower(LabelNameForID(pol, TrimSpace(allowed[i])).s) :
        i \in {j \in 1..Len(allowed) : TrimSpace(allowed[j]) # ""
                                       /\ LabelNameForID(pol, TrimSpace(allowed[j])).ok}}

anyLabelIn(labels, allowedSet) == \E i \in 1..Len(labels) : ToLower(labels[i]) \in allowedSet

\* every item kept
allowedLabelAny(item, allowed, pol) == TRUE

allowedLabelForItem(item, allowed, pol) ==
    anyLabelIn(extractLabels(item), LabelSet(allowed) \cup namedSet(allowed, pol))

\* whether data is a map with a list under key
Listed(data, key) == data.t = "map" /\ Has(data.v, key) /\ data.v[key].t = "list"

\* data with the list under key replaced by what the filter kept, and the warning
\* when the count changed (filterSearchResults, filterLabelsList, filterCalendarList)
filtered(data, key, kept, warning) ==
    IF ~Listed(data, key) THEN Clean(data, << >>)
    ELSE IF Len(kept) # Len(data.v[key].v)
    THEN Clean(JMap(Put(data.v, key, JList(kept))), <<warning>>)
    ELSE Clean(data, << >>)

RECURSIVE keepThreads(_, _, _)
keepThreads(items, allowed, pol) ==
    IF Len(items) = 0 THEN << >>
    ELSE (IF allowedLabelForItem(items[1], allowed, pol) THEN <<items[1]>> ELSE << >>)
         \o keepThreads(Tail(items), allowed, pol)

filterSearchResults(data, allowed, pol) ==
    IF Len(allowed) = 0 THEN Clean(data, << >>)
    ELSE filtered(data, "threads", keepThreads(data.v["threads"].v, allowed, pol),
                  "filtered:labels")

StrField(m, key) == IF Has(m, key) /\ m[key].t = "str" THEN m[key].v ELSE ""

labelListed(item, set) ==
    item.t = "map"
    /\ (ToLower(StrField(item.v, "id")) \in set \/ ToLower(StrField(item.v, "name")) \in set)

RECURSIVE keepLabels(_, _)
keepLabels(items, set) ==
    IF Len(items) = 0 THEN << >>
    ELSE (IF labelListed(items[1], set) THEN <<items[1]>> ELSE << >>)
         \o keepLabels(Tail(items), set)

filterLabelsList(data, allowed) ==
    IF Len(allowed) = 0 THEN Clean(data, << >>)
    ELSE filtered(data, "labels", keepLabels(data.v["labels"].v, LabelSet(allowed)),
                  "filtered:labels")

calendarListed(item, set) ==
    item.t = "map" /\ Has(item.v, "id") /\ item.v["id"].t = "str"
    /\ ToLower(item.v["id"].v) \in set

RECURSIVE keepCalendars(_, _)
keepCalendars(items, set) ==
    IF Len(items) = 0 THEN << >>
    ELSE (IF calendarListed(items[1], set) THEN <<items[1]>> ELSE << >>)
         \o keepCalendars(Tail(items), set)

filterCalendarList(data, allowed) ==
    IF Len(allowed) = 0 THEN Clean(data, << >>)
    ELSE filtered(data, "calendars", keepCalendars(data.v["calendars"].v, LabelSet(allowed)),
                  "filtered:calendars")

\* the set allowedLabelUnion collects, as a list in sorted order
allowedLabelUnion(gmail) ==
    SortStrings(LabelSet(gmail.AllowedReadLabels) \cup LabelSet(gmail.AllowedAddLabels)
                \cup LabelSet(gmail.AllowedRemoveLabels))

GmailActions ==
    {"gmail.search", "gmail.thread.list", "gmail.thread.get", "gmail.thread.modify",
     "gmail.get", "gmail.send", "gmail.drafts.create", "gmail.labels.list",
     "gmail.labels.get", "gmail.labels.modify"}

CalendarActions == {"calendar.list", "calendar.events", "calendar.freebusy"}

Redacted(clean, warnings) == [err |-> "", data |-> clean, warnings |-> warnings]

RedactErr(msg) == [err |-> msg, data |-> JNull, warnings |-> << >>]

withFiltered(clean, kept) == Redacted(kept.val, clean.warnings \o kept.warnings)

\* the default case of the Gmail actions: the answer must carry an allowed label
\* where it carries labels at all
labelChecked(clean, results) ==
    {IF r.found /\ ~r.ok THEN RedactErr("response does not include allowed labels")
     ELSE Redacted(clean.val, clean.warnings) : r \in results}

redactGmail(action, clean, pol) ==
    IF action \in {"gmail.search", "gmail.thread.list"} /\ Len(pol.Gmail.AllowedReadLabels) > 0
    THEN {withFiltered(clean, filterSearchResults(clean.val, pol.Gmail.AllowedReadLabels, pol))}
    ELSE IF action = "gmail.labels.list" /\ Len(allowedLabelUnion(pol.Gmail)) > 0
    THEN {withFiltered(clean, filterLabelsList(clean.val, allowedLabelUnion(pol.Gmail)))}
    ELSE IF action \in {"gmail.search", "gmail.thread.list", "gmail.labels.list",
                        "gmail.send", "gmail.drafts.create"}
    THEN {Redacted(clean.val, clean.warnings)}
    ELSE IF Len(pol.Gmail.AllowedReadLabels) > 0
    THEN labelChecked(clean, hasAllowedLabelIDs(clean.val, pol.Gmail.AllowedReadLabels))
    ELSE {Redacted(clean.val, clean.warnings)}

redactCalendar(action, clean, pol) ==
    IF action = "calendar.list" /\ Len(pol.Calendar.AllowedCalendars) > 0
    THEN {withFiltered(clean, filterCalendarList(clean.val, pol.Calendar.AllowedCalendars))}
    ELSE {Redacted(clean.val, clean.warnings)}

redactClean(action, clean, pol) ==
    IF action \in GmailActions THEN redactGmail(action, clean, pol)
    ELSE redactCalendar(action, clean, pol)

\* redact.Redact: the set of its possible results (one, except where
\* hasAllowedLabelIDs depends on the order of a map)
Redact(action, data, pol) ==
    IF action \in GmailActions /\ ~pol.HasGmail THEN {RedactErr("gmail policy missing")}
    ELSE IF action \in CalendarActions /\ ~pol.HasCalendar
    THEN {RedactErr("calendar policy missing")}
    ELSE IF action \in GmailActions \cup CalendarActions
    THEN redactClean(action, redactAny(data, pol), pol)
    ELSE {Redacted(data, << >>)}

----------------------------------------------------------------------------
(* internal/policy: the policy set *)

ErrAccountRequired == "account is required"

ErrAccountNotAllowed == "account not allowed"

\* the account as it came
normalizeAccountRaw(account) == account

normalizeAccount(account) == ToLower(TrimSpace(account))

\* Policy.Validate: the error ("" is nil) for a policy as decoded from JSON
Validate(p) ==
    LET actions == {TrimSpace(p.AllowedActions[i]) : i \in 1..Len(p.AllowedActions)}
    IN  IF Len(p.AllowedActions) = 0 THEN "allowed_actions must not be empty"
        ELSE IF "" \in actions THEN "allowed_actions contains empty action"
        ELSE IF (\E a \in actions : HasPrefix(a, "gmail.")) /\ ~p.HasGmail
        THEN "gmail policy is required for gmail actions"
        ELSE IF (\E a \in actions : HasPrefix(a, "calendar.")) /\ ~p.HasCalendar
        THEN "calendar policy is required for calendar actions"
        ELSE ""

\* the allowedActionSet Validate builds
Validated(p) ==
    p @@ [allowedActionSet |-> {TrimSpace(p.AllowedActions[i]) : i \in 1..Len(p.AllowedActions)}]

\* LoadSet on a decoded document [DefaultAccount, Accounts]
LoadSet(doc) ==
    LET keys == DOMAIN doc.Accounts
        accounts == {normalizeAccount(k) : k \in keys}
        RawKey(a) == CHOOSE k \in keys : normalizeAccount(k) = a
        default == normalizeAccount(doc.DefaultAccount)
        Fail(msg) == [err |-> msg, set |-> [DefaultAccount |-> "", Accounts |-> << >>]]
    IN  IF keys = {} THEN Fail("accounts must not be empty")
        ELSE IF "" \in accounts THEN Fail("accounts contains empty key")
        ELSE IF Cardinality(accounts) # Cardinality(keys) THEN Fail("duplicate account")
        ELSE IF \E k \in keys : Validate(doc.Accounts[k]) # ""
        THEN Fail("account: " \o Validate(doc.Accounts[CHOOSE k \in keys :
                                                          Validate(doc.Accounts[k]) # ""]))
        ELSE IF doc.DefaultAccount # "" /\ default = "" THEN Fail("default_account is empty")
        ELSE IF doc.DefaultAccount # "" /\ default \notin accounts
        THEN Fail("default_account not found")
        ELSE [err |-> "",
              set |-> [DefaultAccount |-> default,
                       Accounts |-> [a \in accounts |-> Validated(doc.Accounts[RawKey(a)])]]]

\* Resolve without the fallback to the one account of the set
PolicySetResolveNoSole(set, account, fallback) ==
    LET given == normalizeAccount(account)
        normalized == IF given # "" THEN given
                      ELSE IF set.DefaultAccount # "" THEN set.DefaultAccount
                      ELSE normalizeAccount(fallback)
    IN  IF normalized = "" THEN [err |-> ErrAccountRequired, account |-> ""]
        ELSE IF normalized \notin DOMAIN set.Accounts
        THEN [err |-> ErrAccountNotAllowed, account |-> ""]
        ELSE [err |-> "", account |-> normalized]

\* PolicySet.Resolve: the error ("" is nil) and the account whose policy is used
PolicySetResolve(set, account, fallback) ==
    LET given == normalizeAccount(account)
        normalized == IF given # "" THEN given
                      ELSE IF set.DefaultAccount # "" THEN set.DefaultAccount
                      ELSE IF normalizeAccount(fallback) # "" THEN normalizeAccount(fallback)
                      ELSE IF Cardinality(DOMAIN set.Accounts) = 1
                      THEN CHOOSE a \in DOMAIN set.Accounts : TRUE
                      ELSE ""
    IN  IF normalized = "" THEN [err |-> ErrAccountRequired, account |-> ""]
        ELSE IF normalized \notin DOMAIN set.Accounts
        THEN [err |-> ErrAccountNotAllowed, account |-> ""]
        ELSE [err |-> "", account |-> normalized]

\* RunnerFactory.RunnerFor: the Account of the runner it returns
RunnerFor(account, defaultAccount) ==
    IF TrimSpace(account) # "" THEN TrimSpace(account) ELSE TrimSpace(defaultAccount)

----------------------------------------------------------------------------
(* internal/broker: the label map *)

\* the policy of an account as the running broker holds it: the loaded policy and
\* its label maps
PolicyOf(account) ==
    policies.Accounts[account]
    @@ [labelIDToName |-> labelIDToName[account], labelNameToID |-> labelNameToID[account]]

\* the key of labelOnce and labelErr for an account
labelKey(account) == IF account = "" THEN "_default" ELSE account

getLabelErr(account) ==
    IF labelKey(account) \in DOMAIN labelErr THEN labelErr[labelKey(account)] ELSE ""

\* the label allowlists of a Gmail policy: the field Handle tests before it builds
\* the label map
AllowedLabels(gmail) ==
    gmail.AllowedReadLabels \o gmail.AllowedAddLabels \o gmail.AllowedRemoveLabels

\* the idToName map ensureLabelMap collects from the items of a labels list
RECURSIVE labelsOfItems(_)
labelsOfItems(items) ==
    IF Len(items) = 0 THEN EmptyMap
    ELSE LET m == items[Len(items)]
             before == labelsOfItems(SubSeq(items, 1, Len(items) - 1))
         IN  IF m.t = "map" /\ StrField(m.v, "id") # "" /\ StrField(m.v, "name") # ""
             THEN Put(before, StrField(m.v, "id"), StrField(m.v, "name"))
             ELSE before

\* a build that latches nothing: neither its Once nor its error is kept
ensureLabelMapUnlatched(account, lout) ==
    [err |-> Run(RunnerFor(account, DefaultAccount), "gmail.labels.list", EmptyMap, lout).err,
     calls |-> Run(RunnerFor(account, DefaultAccount), "gmail.labels.list", EmptyMap, lout).calls,
     once |-> labelOnce, errs |-> labelErr, ids |-> labelIDToName, names |-> labelNameToID]

\* ensureLabelMap: the error it returns ("" is nil), the invocations it made and
\* the state it leaves; lout is what the upstream answers to gmail.labels.list
ensureLabelMap(account, lout) ==
    LET key == labelKey(account)
        run == Run(RunnerFor(account, DefaultAccount), "gmail.labels.list", EmptyMap, lout)
        idToName == labelsOfItems(run.data.v["labels"].v)
        buildErr == IF run.err # "" THEN run.err
                    ELSE IF run.data.t # "map" THEN "invalid labels response"
                    ELSE IF ~Has(run.data.v, "labels") THEN "labels missing"
                    ELSE IF run.data.v["labels"].t # "list" THEN "labels invalid"
                    ELSE IF DOMAIN idToName = {} THEN "labels empty"
                    ELSE ""
    IN  IF key \in labelOnce
        THEN [err |-> getLabelErr(account), calls |-> << >>, once |-> labelOnce,
              errs |-> labelErr, ids |-> labelIDToName, names |-> labelNameToID]
        ELSE [err |-> buildErr, calls |-> run.calls, once |-> labelOnce \cup {key},
              errs |-> Put(labelErr, key, buildErr),
              ids |-> IF buildErr = ""
                      THEN [labelIDToName EXCEPT ![account] = SetLabelMapNormalized(idToName)]
                      ELSE labelIDToName,
              names |-> IF buildErr = ""
                        THEN [labelNameToID EXCEPT ![account] = SetLabelMapRev(idToName)]
                        ELSE labelNameToID]

----------------------------------------------------------------------------
(* internal/broker: Handle *)

Request(id, action, account, params) ==
    [ID |-> id, Action |-> action, Account |-> account, Params |-> params]

NoError == [Code |-> "", Message |-> ""]

NewError(code, message) == [Code |-> code, Message |-> message]

Response(id, ok, data, warnings, error) ==
    [ID |-> id, Ok |-> ok, Data |-> data, Warnings |-> warnings, Error |-> error]

NoRequest == Request("", "", "", EmptyMap)

NoResponse == Response("", FALSE, JNull, << >>, NoError)

\* the slice left in the order it has
SortSliceNone(l) == l

\* sort.Strings of a slice
RECURSIVE SortSlice(_)
SortSlice(l) ==
    IF Len(l) = 0 THEN << >>
    ELSE LET i == CHOOSE j \in 1..Len(l) : \A k \in 1..Len(l) : ~StrLess(l[k], l[j])
         IN  <<l[i]>> \o SortSlice(SubSeq(l, 1, i - 1) \o SubSeq(l, i + 1, Len(l)))

\* what one call of Handle does: its response, the upstream invocations it made, the
\* label state it leaves, and whether the process died under it
Handled(response, made, lm, crash) ==
    [resp |-> response, calls |-> made, once |-> lm.once, errs |-> lm.errs,
     ids |-> lm.ids, names |-> lm.names, crash |-> crash]

LabelStateNow ==
    [err |-> "", calls |-> << >>, once |-> labelOnce, errs |-> labelErr,
     ids |-> labelIDToName, names |-> labelNameToID]

Denied(r, code, message) ==
    Handled(Response(r.ID, FALSE, JNull, << >>, NewError(code, message)), << >>,
            LabelStateNow, FALSE)

\* Handle after the action was found allowed for the account's policy: its possible
\* outcomes, over what the upstream answers to each invocation Handle makes (louts
\* to the label-map build, tzOuts to the time-zone provider, outs to the request's
\* own invocation)
HandleAllowed(r, account, t, louts, tzOuts, outs) ==
    LET loaded == policies.Accounts[account]
        needsMap == r.Action \in {"gmail.search", "gmail.thread.list"} /\ loaded.HasGmail
                    /\ Len(AllowedLabels(loaded.Gmail)) > 0
        lms == IF ~needsMap THEN {LabelStateNow}
               ELSE IF labelKey(account) \in labelOnce THEN {ensureLabelMap(account, Failed)}
               ELSE {ensureLabelMap(account, lout) : lout \in louts}
        Fail(code, message, invoked, lm) ==
            Handled(Response(r.ID, FALSE, JNull, << >>, NewError(code, message)), invoked, lm,
                    FALSE)
        Invoked(lm, pol, rw) ==
            LET draft == r.Action = "gmail.send" /\ DraftSendRequired(pol, rw.params)
                runAction == IF draft THEN "gmail.drafts.create" ELSE r.Action
                warnings == IF draft
                            THEN Append(rw.warnings, "action_rewritten:gmail.drafts.create")
                            ELSE rw.warnings
                Answered(out) ==
                    LET run == Run(RunnerFor(account, DefaultAccount), runAction, rw.params, out)
                        made == lm.calls \o rw.calls \o run.calls
                    IN  IF run.err # "" THEN {Fail("upstream_error", run.err, made, lm)}
                        ELSE {IF red.err # "" THEN Fail("redaction_error", red.err, made, lm)
                              ELSE Handled(Response(r.ID, TRUE, red.data,
                                                    warnings \o red.warnings, NoError),
                                           made, lm, FALSE) :
                                 red \in Redact(r.Action, run.data, pol)}
            IN  UNION {Answered(out) : out \in outs}
        Rewritten(lm, pol, rw) ==
            IF rw.crash THEN {Handled(NoResponse, lm.calls \o rw.calls, lm, TRUE)}
            ELSE IF rw.err # "" THEN {Fail("forbidden", rw.err, lm.calls \o rw.calls, lm)}
            ELSE IF r.Action = "policy.actions"
            THEN {Handled(Response(r.ID, TRUE,
                                   JMap([account |-> JStr(account),
                                         actions |-> GoStrings(SortSlice(pol.AllowedActions))]),
                                   rw.warnings, NoError),
                          lm.calls \o rw.calls, lm, FALSE)}
            ELSE Invoked(lm, pol, rw)
        Mapped(lm) ==
            LET pol == loaded @@ [labelIDToName |-> lm.ids[account],
                                  labelNameToID |-> lm.names[account]]
            IN  IF lm.err # ""
                THEN {Fail("upstream_error", "failed to resolve label ids", lm.calls, lm)}
                ELSE UNION {Rewritten(lm, pol,
                                      ValidateAndRewrite(pol, r.Action, r.Params, t,
                                                         DefaultAccount, tzOut)) :
                               tzOut \in tzOuts}
    IN  UNION {Mapped(lm) : lm \in lms}

\* Broker.Handle: the possible outcomes for the request r at time t
HandleOutcomes(r, t, louts, tzOuts, outs) ==
    LET resolved == PolicySetResolve(policies, r.Account, DefaultAccount)
    IN  IF r.ID = "" THEN {Denied(r, "bad_request", "id is required")}
        ELSE IF r.Action = "" THEN {Denied(r, "bad_request", "action is required")}
        ELSE IF resolved.err # ""
        THEN {Denied(r, IF resolved.err = ErrAccountRequired THEN "bad_request" ELSE "forbidden",
                     resolved.err)}
        ELSE IF ~IsActionAllowed(policies.Accounts[resolved.account], r.Action)
        THEN {Denied(r, "forbidden", "action not allowed")}
        ELSE HandleAllowed(r, resolved.account, t, louts, tzOuts, outs)

----------------------------------------------------------------------------
(* The configurations the broker is started with *)

GmailPolicy(read, add, remove, senders, recipients, maxDays, open, draftOnly) ==
    [AllowedReadLabels |-> read, AllowedAddLabels |-> add, AllowedRemoveLabels |-> remove,
     AllowedSenders |-> senders, AllowedSendRecipients |-> recipients, MaxDays |-> maxDays,
     AllowBody |-> open, AllowLinks |-> open, DraftOnly |-> draftOnly,
     AllowAttachments |-> open]

CalendarPolicy(allowed, details, maxDays) ==
    [AllowedCalendars |-> allowed, AllowDetails |-> details, MaxDays |-> maxDays]

NoGmail == GmailPolicy(<< >>, << >>, << >>, << >>, << >>, 0, FALSE, FALSE)

NoCalendar == CalendarPolicy(<< >>, FALSE, 0)

AllActions ==
    <<"gmail.search", "gmail.thread.list", "gmail.thread.get", "gmail.thread.modify",
      "gmail.get", "gmail.send", "gmail.drafts.create", "gmail.labels.list",
      "gmail.labels.get", "gmail.labels.modify", "calendar.list", "calendar.events",
      "calendar.freebusy", "policy.actions">>

\* every action, under allowlists for labels, senders, recipients and calendars
StrictPolicy ==
    [AllowedActions |-> AllActions,
     HasGmail |-> TRUE,
     Gmail |-> GmailPolicy(<<"Label_1">>, <<"Work", "Label_1">>, <<"INBOX">>, <<"x.com">>,
                           <<"allowed@x.com">>, 7, FALSE, FALSE),
     HasCalendar |-> TRUE,
     Calendar |-> CalendarPolicy(<<"cal1">>, FALSE, 3)]

\* a few Gmail actions, no allowlist, nothing redacted, no calendar policy
OpenPolicy ==
    [AllowedActions |-> <<" gmail.search ", "gmail.send", "gmail.get", "policy.actions">>,
     HasGmail |-> TRUE,
     Gmail |-> GmailPolicy(<< >>, << >>, << >>, << >>, << >>, 0, TRUE, FALSE),
     HasCalendar |-> FALSE,
     Calendar |-> NoCalendar]

\* drafts only; no search, no policy.actions; any calendar
DraftPolicy ==
    [AllowedActions |-> <<"gmail.thread.get", "gmail.thread.modify", "gmail.get", "gmail.send",
                          "gmail.drafts.create", "gmail.labels.list", "gmail.labels.get",
                          "gmail.labels.modify", "calendar.list", "calendar.events",
                          "calendar.freebusy">>,
     HasGmail |-> TRUE,
     Gmail |-> GmailPolicy(<< >>, <<"Label_1">>, << >>, << >>, <<"allowed@x.com">>, 30, FALSE, TRUE),
     HasCalendar |-> TRUE,
     Calendar |-> CalendarPolicy(<< >>, TRUE, 0)]

TwoAccounts ==
    [DefaultAccount |-> "", Accounts |-> ("a@x.com" :> StrictPolicy) @@ (" B@X.com" :> OpenPolicy)]

OneAccount == [DefaultAccount |-> "C@x.com", Accounts |-> ("c@x.com" :> DraftPolicy)]

\* the policy documents and the gog account the broker is configured with
\* one account and no default_account
SoleAccount == [DefaultAccount |-> "", Accounts |-> (" C@x.com " :> DraftPolicy)]

Configurations ==
    {[doc |-> TwoAccounts, account |-> "a@x.com"], [doc |-> TwoAccounts, account |-> ""],
     [doc |-> OneAccount, account |-> ""], [doc |-> OneAccount, account |-> "a@x.com"],
     [doc |-> SoleAccount, account |-> ""], [doc |-> SoleAccount, account |-> " "],
     [doc |-> SoleAccount, account |-> "A@x.com "]}

\* the instants time.Now() returns: Thursday 2026-11-05 01:00:00 UTC and a week later
Nows ==
    {DaysFromCivil(2026, 11, 5) * SecondsPerDay + 3600,
     DaysFromCivil(2026, 11, 12) * SecondsPerDay + 3600}

----------------------------------------------------------------------------
(* The requests clients send and the answers of the upstream *)

\* how deep a JSON value is wrapped in lists
MaxNest == 2

RECURSIVE Nest(_, _)
Nest(v, k) == IF k = 0 THEN v ELSE JList(<<Nest(v, k - 1)>>)

Nested(S) == {Nest(v, k) : v \in S, k \in 0..MaxNest}

\* the JSON shapes of a parameter over the scalars S: a scalar, a scalar wrapped in
\* lists, and a list of such a value and a scalar of T
Shapes(S, T) == Nested(S) \cup {JList(<<x, y>>) : x \in Nested(S), y \in T}

Allowed == JStr("allowed@x.com")

Evil == JStr("evil@y.com")

SendParams ==
    {[to |-> v] : v \in Shapes({Allowed, Evil, JNum(5)}, {Allowed})
                        \cup {JStr("Al <ALLOWED@x.com>, allowed@x.com"),
                              JStr("allowed@x.com,evil@y.com"), JStr(" ")}}
    \cup {[to |-> Allowed, cc |-> v] : v \in Shapes({Allowed, Evil}, {Allowed})}
    \cup {[subject |-> JStr("hi")], [to |-> Allowed, bcc |-> JList(<<Evil>>)],
          [to |-> Allowed, track |-> JBool(TRUE)], [to |-> Allowed, thread_id |-> JStr("t1")],
          [to |-> Evil, thread_id |-> JStr("t1")], [to |-> Allowed, attach |-> JStr("f.txt")],
          [to |-> Allowed, reply_all |-> JBool(FALSE)], [to |-> Allowed, subject |-> JStr("hi")],
          [to |-> Allowed, track_split |-> JNull]}

\* the send params with a parameter some policy refuses
RefusableSendParams ==
    {ps \in SendParams :
        DOMAIN ps \cap {"track", "track_split", "reply_all", "thread_id", "attach"} # {}}

LabelShapes ==
    Shapes({JStr("Work"), JStr("Evil"), JStr("family"), JNum(7)}, {JStr("Work")})
    \cup {JStr("Work,Evil"), JStr(" work , Label_1")}

ModifyParams ==
    {[add |-> v, remove |-> JStr("inbox")] : v \in LabelShapes}
    \cup {[add |-> v] : v \in {JStr("Work"), JStr("Evil"), JList(<<JStr("Label_1")>>)}}
    \cup {[remove |-> v] : v \in {JStr("inbox"), JStr("Evil"), JList(<<JList(<<JStr("Evil")>>)>>)}}
    \cup {[add |-> JStr("Work"), remove |-> Nest(JStr("Evil"), 2)], EmptyMap}

ThreadTargets ==
    {[thread_id |-> JStr("t1")], [id |-> JStr(" t1 ")], [thread_ids |-> JList(<<JStr("t1")>>)]}

Queries ==
    {"", "label:x", "newer_than:3d", "newer_than:8d", "NEWER_THAN:7D x", "xnewer_than:1d",
     "newer_than:9d newer_than:1d", "newer_than:1d newer_than:9d",
     "newer_than:99999999999999999999d", "after:2026/11/01", "after:2026/10/01",
     "after:2026/13/01", "After:2026/10/29 x", "label:newer_than:5d", "newer_than:5m"}

SearchParams ==
    {[query |-> JStr(q)] : q \in Queries}
    \cup {EmptyMap, [query |-> JNum(3)], [query |-> JStr("label:x"), max |-> JNum(10)],
          [query |-> JStr("label:x"), verbose |-> JBool(TRUE)]}

GetParams ==
    {[message_id |-> JStr("m1")], [id |-> JStr("m1")], EmptyMap,
     [message_id |-> JStr("m1"), format |-> JStr("full")],
     [message_id |-> JStr("m1"), format |-> JStr("metadata"), headers |-> JStr("From")],
     [message_id |-> JStr("m1"), headers |-> JBool(TRUE)],
     [message_id |-> JStr("m1"), format |-> JNum(5)],
     [message_id |-> JStr("m1"), format |-> JList(<<JStr("full")>>)],
     [message_id |-> JStr("m1"), format |-> JStr("")],
     [message_id |-> JStr("--headers")], [message_id |-> JStr("m1"), bogus |-> JNum(1)]}

TimeParams ==
    {EmptyMap, [today |-> JBool(TRUE)], [tomorrow |-> JStr("true")],
     [week |-> JBool(TRUE), week_start |-> JStr("Sun")],
     [week |-> JBool(TRUE), week_start |-> JStr("noday")],
     [days |-> JNum(2)], [days |-> JStr("5")],
     [from |-> JStr("2026-11-05T00:00:00Z"), to |-> JStr("2026-11-06T00:00:00+02:00")],
     [time_min |-> JStr("2026-11-05T00:00:00Z"), time_max |-> JStr("2026-11-15T00:00:00Z")],
     [time_min |-> JStr("2026-11-05T00:00:00Z"), time_max |-> JStr("2026-11-04T00:00:00-0100")],
     [from |-> JStr("monday"), to |-> JStr("next fri")],
     [from |-> JStr("2026-11-05")], [from |-> JStr("bogus")], [to |-> JStr("yesterday")]}

CalendarIDs == {JStr("cal1"), JStr("evil"), JStr("CAL1"), JNum(1)}

EventsParams ==
    {[calendar_id |-> JStr("cal1")] @@ tp : tp \in TimeParams}
    \cup {[calendar_id |-> c, today |-> JBool(TRUE)] : c \in CalendarIDs}
    \cup {EmptyMap, [today |-> JBool(TRUE)], [days |-> JNum(9)]}

FreeBusyParams ==
    {[calendar_ids |-> c, today |-> JBool(TRUE)] :
        c \in Shapes({JStr("cal1"), JStr("evil"), JNum(5)}, {JStr("cal1")})
              \cup {JStr("cal1,evil"), JStr(" cal1 ")}}
    \cup {[calendar_ids |-> c] @@ tp :
             c \in {JStr("cal1"), JStr("evil")},
             tp \in {EmptyMap, [days |-> JNum(2)], [days |-> JNum(9)],
                     [from |-> JStr("2026-11-05T00:00:00Z"), to |-> JStr("2026-11-06T00:00:00Z")]}}
    \cup {[today |-> JBool(TRUE)]}

\* the params sent with an action
ParamsOf(action) ==
    IF action \in {"gmail.search", "gmail.thread.list"} THEN SearchParams
    ELSE IF action = "gmail.thread.get"
    THEN {[id |-> JStr("t1")], [thread_id |-> JStr("t1")], [id |-> JNum(1)], EmptyMap}
    ELSE IF action \in {"gmail.thread.modify", "gmail.labels.modify"}
    THEN {m @@ [thread_id |-> JStr("t1")] : m \in ModifyParams}
         \cup {m @@ target : m \in {[add |-> JStr("Work")], [remove |-> JStr("Evil")]},
                             target \in ThreadTargets}
         \cup {[add |-> JStr("Work")]}
    ELSE IF action = "gmail.get" THEN GetParams
    ELSE IF action \in {"gmail.send", "gmail.drafts.create"} THEN SendParams
    ELSE IF action = "gmail.labels.get"
    THEN {[label |-> JStr("Label_1")], [label |-> JStr("Evil")], [id |-> JStr(" family ")],
          [label |-> JStr(" ")], EmptyMap}
    ELSE IF action = "calendar.events" THEN EventsParams
    ELSE IF action = "calendar.freebusy" THEN FreeBusyParams
    ELSE {EmptyMap, [max |-> JNum(5)]}

\* one request of every action for every account name, and every request of the
\* families above for the default account
Requests ==
    {Request("r1", action, account, CHOOSE ps \in ParamsOf(action) : DOMAIN ps # {}) :
        action \in SeqToSet(AllActions) \cup {"gmail.delete", ""},
        account \in {"a@x.com", " B@x.com ", "z@x.com"}}
    \cup UNION {{Request("r1", action, "", ps) : ps \in ParamsOf(action)} :
                   action \in SeqToSet(AllActions)}
    \cup {Request("", "gmail.get", "", [message_id |-> JStr("m1")]),
          Request("r1", "gmail.delete", "", EmptyMap)}
    \cup {Request("r1", "gmail.send", " B@x.com ", ps) : ps \in RefusableSendParams}


ThreadsData ==
    JMap([threads |->
            JList(<<JMap([id |-> JStr("t1"), labels |-> JList(<<JStr("Family")>>),
                          snippet |-> JStr("from bob@evil.org see https://a.b/c")]),
                    JMap([id |-> JStr("t2"), labelIds |-> JList(<<JStr("Other")>>),
                          body |-> JStr("text")])>>)])

MessageData ==
    JMap([id |-> JStr("m1"), labelIds |-> JList(<<JStr("Label_1")>>),
          payload |-> JMap([body |-> JStr("text")]), snippet |-> JStr("see http://a.b")])

LabelsData ==
    JMap([labels |-> JList(<<JMap([id |-> JStr("Label_1"), name |-> JStr("Family")]),
                             JMap([id |-> JStr("INBOX"), name |-> JStr("INBOX")]),
                             JMap([id |-> JStr("Label_2")])>>)])

CalendarsData(timeZone) ==
    JMap([calendars |-> JList(<<JMap([id |-> JStr("cal2"), timeZone |-> JStr("Mars/Base")]),
                                JMap([id |-> JStr("cal1"), primary |-> JBool(TRUE),
                                      timeZone |-> JStr(timeZone)])>>)])

\* what the upstream answers to the invocation made for a request
OutsFor(action) ==
    IF action \in {"gmail.search", "gmail.thread.list"} THEN {Failed, Printed(ThreadsData)}
    ELSE IF action = "gmail.labels.list" THEN {Failed, Printed(LabelsData)}
    ELSE IF action = "calendar.list" THEN {Failed, Printed(CalendarsData("UTC"))}
    ELSE {Failed, Printed(MessageData)}

\* what it answers to the gmail.labels.list of the label-map build
LabelOutsFor(action) ==
    IF action \in {"gmail.search", "gmail.thread.list"}
    THEN {Failed, Printed(LabelsData), Printed(JMap(EmptyMap))}
    ELSE {Failed}

\* what it answers to the calendar.list of the time-zone provider
ZoneOutsFor(action) ==
    IF action \in {"calendar.events", "calendar.freebusy"}
    THEN {Failed, Printed(CalendarsData("UTC")), Printed(CalendarsData("Etc/GMT-2"))}
    ELSE {Failed}

----------------------------------------------------------------------------
(* The broker serving requests one at a time *)

NoRedact == [action |-> "", data |-> JNull, pol |-> Validated(OpenPolicy) @@
                [labelIDToName |-> NilMap, labelNameToID |-> NilMap]]

Init ==
    /\ \E c \in Configurations :
          /\ LoadSet(c.doc).err = ""
          /\ policies = LoadSet(c.doc).set
          /\ DefaultAccount = c.account
    /\ labelOnce = {}
    /\ labelErr = EmptyMap
    /\ labelIDToName = [a \in DOMAIN policies.Accounts |-> NilMap]
    /\ labelNameToID = [a \in DOMAIN policies.Accounts |-> NilMap]
    /\ alive = TRUE
    /\ now = CHOOSE t \in Nows : \A u \in Nows : t <= u
    /\ pc = "idle"
    /\ req = NoRequest
    /\ resp = NoResponse
    /\ calls = << >>
    /\ handlers = << >>
    /\ redIn = NoRedact
    /\ redOut = RedactErr("")

\* the server decodes a request from the socket
Receive ==
    /\ alive /\ pc = "idle"
    /\ \E r \in Requests : req' = r
    /\ pc' = "pending"
    /\ UNCHANGED <<handlers, policies, DefaultAccount, labelOnce, labelErr, labelIDToName, labelNameToID,
                   alive, now, resp, calls, redIn, redOut>>

\* Broker.Handle runs on it
Handle ==
    /\ alive /\ pc = "pending"
    /\ \E h \in HandleOutcomes(req, now, LabelOutsFor(req.Action), ZoneOutsFor(req.Action),
                                OutsFor(req.Action)) :
          /\ resp' = h.resp
          /\ calls' = h.calls
          /\ labelOnce' = h.once
          /\ labelErr' = h.errs
          /\ labelIDToName' = h.ids
          /\ labelNameToID' = h.names
          /\ alive' = ~h.crash
          /\ pc' = IF h.crash THEN "crashed" ELSE "done"
    /\ UNCHANGED <<handlers, policies, DefaultAccount, now, req, redIn, redOut>>

\* the server writes the response; the next request can be read
Deliver ==
    /\ alive /\ pc = "done"
    /\ pc' = "idle"
    /\ req' = NoRequest
    /\ resp' = NoResponse
    /\ calls' = << >>
    /\ UNCHANGED <<handlers, policies, DefaultAccount, labelOnce, labelErr, labelIDToName, labelNameToID,
                   alive, now, redIn, redOut>>

\* time passes between two requests
Tick ==
    /\ alive /\ pc = "idle"
    /\ \E t \in Nows : t > now /\ now' = t
    /\ UNCHANGED <<handlers, policies, DefaultAccount, labelOnce, labelErr, labelIDToName, labelNameToID,
                   alive, pc, req, resp, calls, redIn, redOut>>

Next == Receive \/ Handle \/ Deliver \/ Tick

Spec == Init /\ [][Next]_vars

----------------------------------------------------------------------------
(* redact.Redact on the answers of the upstream *)

\* how deep an answer is wrapped in maps and lists
MaxDepth == 2

\* how many threads a search answer lists
MaxThreads == 2

AnswerStrings ==
    {"plain", "see http://a.b/c now", "http:// x", "at https://", "bob@evil.org", "amy@x.com",
     "https://a.b?u=http://c.d"}

AnswerKeys == {"body", "attachments", "snippetHtml", "snippet", "labelIds"}

\* the answers wrapped at most k deep
RECURSIVE Wrapped(_)
Wrapped(k) ==
    IF k = 0 THEN {JStr(str) : str \in AnswerStrings} \cup {JNum(1), JStr("Label_1")}
    ELSE Wrapped(k - 1)
         \cup {JMap(key :> v) : key \in AnswerKeys, v \in Wrapped(k - 1)}
         \cup {JList(<<v>>) : v \in Wrapped(k - 1)}

\* a message with every kind of key, dropped keys beneath dropped and kept ones
RichMessage ==
    JMap([id |-> JStr("m1"), labelIds |-> JList(<<JStr("label_1")>>),
          payload |-> JMap([body |-> JStr("text"), parts |-> JList(<<JStr("p")>>)]),
          headers |-> JMap([From |-> JStr("Bob <bob@evil.org>"), mimeType |-> JStr("text/html"),
                            raw |-> JNum(1), html |-> JStr("<p>"), htmlbody |-> JStr("<p>"),
                            mime |-> JStr("m"), Body |-> JStr("kept")]),
          attachments |-> JList(<<JMap([attachment |-> JStr("a.pdf")])>>),
          snippet_html |-> JStr("<a href=http://a.b>"),
          location |-> JMap([body |-> JStr("text")]),
          snippet |-> JStr("a@x.com http://a.b\thttps://\nhttp://c")])

Labelled(key, labels) == JMap(key :> JList(labels) @@ [id |-> JStr("t")])

\* the items of the threads of a search answer
ThreadItems ==
    {Labelled("labels", <<JStr("Family")>>), Labelled("labelIds", <<JStr(" label_1 ")>>),
     Labelled("label_ids", <<JNum(5), JStr("FAMILY")>>), Labelled("labels", <<JStr("Other")>>),
     Labelled("labelIds", << >>), JMap([id |-> JStr("t")]), JStr("Label_1"),
     JMap([labels |-> JStr("Label_1")]),
     JMap([labels |-> JList(<<JStr("Other")>>), labelIds |-> JList(<<JStr("Label_1")>>)]),
     JMap([labels |-> JList(<<JStr(" ")>>), labelIds |-> JList(<<JStr("Label_1")>>),
           body |-> JStr("text")])}

\* the lists of at most k items of S
RECURSIVE ListsOf(_, _)
ListsOf(S, k) ==
    IF k = 0 THEN {<< >>}
    ELSE ListsOf(S, k - 1) \cup {<<x>> \o l : x \in S, l \in {m \in ListsOf(S, k - 1) : Len(m) = k - 1}}

SearchAnswers ==
    {JMap([threads |-> JList(l)]) : l \in ListsOf(ThreadItems, MaxThreads)}
    \cup {JMap([threads |-> JStr("none")]), JMap([nextPageToken |-> JStr("n")]), JList(<< >>)}

\* the answers to the actions on one thread, message or label: messages or parts
\* with label lists, one allowed and one not, in both orders and under two keys
ThreadAnswers ==
    {JMap([messages |-> JList(l)]) :
        l \in {<<Labelled("labelIds", <<JStr("Other")>>), Labelled("labelIds", <<JStr("LABEL_1")>>)>>,
               <<Labelled("label_ids", <<JStr("Label_1")>>), Labelled("labelIds", <<JStr("Other")>>)>>,
               <<Labelled("labelIds", <<JStr("Other")>>), Labelled("LabelIDs", <<JStr("Spam")>>)>>,
               <<Labelled("labelIds", << >>), Labelled("labelIds", <<JNum(5)>>)>>,
               <<Labelled("labels", <<JStr("Other")>>)>>}}
    \cup {JMap([first |-> Labelled("labelIds", <<JStr("Label_1")>>),
                second |-> Labelled("labelIds", <<JStr("Other")>>)]),
          JMap([labelIds |-> JList(<<JStr("Other")>>),
                payload |-> JMap([labelIds |-> JList(<<JStr("Label_1")>>)])]),
          JMap([labelIds |-> JStr("Label_1")]), MessageData}

\* a validated policy with the label maps SetLabelMap installs for idToName
Holding(p, idToName) ==
    Validated(p) @@ [labelIDToName |-> SetLabelMapNormalized(idToName),
                     labelNameToID |-> SetLabelMapRev(idToName)]

\* a validated policy whose label map was never built
Bare(p) == Validated(p) @@ [labelIDToName |-> NilMap, labelNameToID |-> NilMap]

\* the policies answers are redacted under: each of allow_body and allow_links on
\* and off, with and without sender and label allowlists and a calendar policy
RedactPolicies ==
    {Holding(StrictPolicy, "Label_1" :> "Family" @@ "INBOX" :> "INBOX"), Bare(StrictPolicy),
     Bare(OpenPolicy), Bare(DraftPolicy),
     Bare([OpenPolicy EXCEPT !.Gmail.AllowLinks = FALSE]),
     Bare([OpenPolicy EXCEPT !.Gmail.AllowBody = FALSE]),
     Holding([DraftPolicy EXCEPT !.Gmail.AllowedReadLabels = <<" family ", "">>],
             "Label_1" :> "Family")}

\* calendars whose ids are e-mail addresses, as those of shared calendars are, and
\* entries that are no calendar
CalendarsMail ==
    JMap([calendars |-> JList(<<JMap([id |-> JStr("bob@evil.org"), summary |-> JStr("B")]),
                                JMap([id |-> JStr("CAL1")]), JStr("cal1"),
                                JMap([id |-> JNum(5)]), JMap([id |-> JStr("amy@x.com")])>>)])

\* labels to keep for their name only, and entries that are no label
LabelsNamed ==
    JMap([labels |-> JList(<<JMap([id |-> JStr("Label_9"), name |-> JStr("Work")]),
                             JMap([name |-> JStr("inbox")]), JMap([id |-> JStr("x")]),
                             JStr("Work")>>)])

\* the policies lists are filtered under: calendars named by their e-mail address,
\* with and without an allowlist of senders
ListPolicies ==
    {Bare([StrictPolicy EXCEPT !.Calendar.AllowedCalendars = <<" Cal1 ", "bob@evil.org">>]),
     Bare([StrictPolicy EXCEPT !.Calendar.AllowedCalendars = <<"bob@evil.org", "amy@x.com">>,
                               !.Gmail.AllowedSenders = << >>]),
     Bare(StrictPolicy), Bare(DraftPolicy)}

\* links allowed in mail while the details of events are not
LinksOnlyPolicy == Bare([StrictPolicy EXCEPT !.Gmail.AllowLinks = TRUE])

\* what Redact is applied to: the action, the decoded answer and the policy
RedactInputs ==
    {[action |-> a, data |-> d, pol |-> p] :
        a \in {"calendar.list", "gmail.labels.list"},
        d \in {CalendarsMail, LabelsNamed, JMap([labels |-> JStr("none")])},
        p \in ListPolicies}
    \cup
    {[action |-> "gmail.get", data |-> d, pol |-> p] :
        d \in Wrapped(MaxDepth) \cup {RichMessage, MessageData}, p \in RedactPolicies}
    \cup {[action |-> a, data |-> d, pol |-> p] :
             a \in {"gmail.search", "gmail.thread.list"},
             d \in SearchAnswers \cup {ThreadsData}, p \in RedactPolicies}
    \cup {[action |-> a, data |-> d, pol |-> p] :
             a \in {"gmail.send", "gmail.labels.list", "calendar.list", "calendar.events",
                    "policy.actions"},
             d \in {RichMessage, LabelsData, CalendarsData("UTC")}, p \in RedactPolicies}
    \cup {[action |-> a, data |-> d, pol |-> p] :
             a \in {"gmail.thread.get", "gmail.labels.get", "gmail.thread.modify",
                    "gmail.labels.modify", "gmail.drafts.create"},
             d \in ThreadAnswers, p \in RedactPolicies}
    \cup {[action |-> a, data |-> MessageData, pol |-> LinksOnlyPolicy] :
             a \in {"gmail.get", "calendar.events"}}

RedactInit ==
    /\ policies = LoadSet(TwoAccounts).set
    /\ DefaultAccount = ""
    /\ labelOnce = {}
    /\ labelErr = EmptyMap
    /\ labelIDToName = [a \in DOMAIN policies.Accounts |-> NilMap]
    /\ labelNameToID = [a \in DOMAIN policies.Accounts |-> NilMap]
    /\ alive = TRUE
    /\ now = CHOOSE t \in Nows : \A u \in Nows : t <= u
    /\ pc = "redacting"
    /\ req = NoRequest
    /\ resp = NoResponse
    /\ calls = << >>
    /\ handlers = << >>
    /\ redIn \in RedactInputs
    /\ redOut = RedactErr("")

\* Redact runs on the answer
RedactStep ==
    /\ pc = "redacting"
    /\ redOut' \in Redact(redIn.action, redIn.data, redIn.pol)
    /\ pc' = "redacted"
    /\ UNCHANGED <<handlers, policies, DefaultAccount, labelOnce, labelErr, labelIDToName, labelNameToID,
                   alive, now, req, resp, calls, redIn>>

\* Redact runs again, on the data it returned
RedactAgain ==
    /\ pc = "redacted" /\ redOut.err = ""
    /\ redIn' = [redIn EXCEPT !.data = redOut.data]
    /\ redOut' \in Redact(redIn.action, redOut.data, redIn.pol)
    /\ pc' = "redacted again"
    /\ UNCHANGED <<handlers, policies, DefaultAccount, labelOnce, labelErr, labelIDToName,
                   labelNameToID, alive, now, req, resp, calls>>

RedactNext == RedactStep \/ RedactAgain

SpecRedact == RedactInit /\ [][RedactNext]_vars

----------------------------------------------------------------------------
(* Broker.Handle on several connections at once: the build of the label map *)

\* how many connections net/http serves, each in its own goroutine
MaxHandlers == 2

\* two accounts whose policies name labels, so that both need their label map
LabelledAccounts ==
    [DefaultAccount |-> "",
     Accounts |-> ("a@x.com" :> StrictPolicy)
                  @@ ("b@x.com" :> [StrictPolicy EXCEPT !.Gmail.AllowedReadLabels = <<"INBOX">>])]

\* searches for both accounts, one account spelled two ways, and a request that
\* needs no label map
LabelRequests ==
    {Request("r1", "gmail.search", account, [query |-> JStr("label:x")]) :
        account \in {"a@x.com", "b@x.com"}}
    \cup {Request("r1", "gmail.thread.list", " A@X.com ", [query |-> JStr("label:x")]),
          Request("r1", "gmail.get", "a@x.com", [message_id |-> JStr("m1")])}

\* what the upstream answers to the gmail.labels.list of a build: a failure (the
\* caller's context cancelled among them), a labels list, an answer without labels
BuildOuts == {Failed, Printed(LabelsData), Printed(JMap(EmptyMap))}

Handling(at, r, response) == [at |-> at, req |-> r, resp |-> response]

\* the account resolvePolicy gives for a request
AccountOf(r) == PolicySetResolve(policies, r.Account, DefaultAccount).account

KeyOf(r) == labelKey(AccountOf(r))

\* Handle calls ensureLabelMap for r
NeedsLabelMap(r) ==
    /\ r.ID # "" /\ r.Action \in {"gmail.search", "gmail.thread.list"}
    /\ PolicySetResolve(policies, r.Account, DefaultAccount).err = ""
    /\ IsActionAllowed(policies.Accounts[AccountOf(r)], r.Action)
    /\ policies.Accounts[AccountOf(r)].HasGmail
    /\ Len(AllowedLabels(policies.Accounts[AccountOf(r)].Gmail)) > 0

\* a Once that holds nobody back
BuildingNever(key) == FALSE

\* the Once of key is running its function in some goroutine
Building(key) ==
    \E g \in DOMAIN handlers : handlers[g].at = "building" /\ KeyOf(handlers[g].req) = key

LabelsInit ==
    /\ policies = LoadSet(LabelledAccounts).set
    /\ DefaultAccount = ""
    /\ labelOnce = {}
    /\ labelErr = EmptyMap
    /\ labelIDToName = [a \in DOMAIN policies.Accounts |-> NilMap]
    /\ labelNameToID = [a \in DOMAIN policies.Accounts |-> NilMap]
    /\ alive = TRUE
    /\ now = CHOOSE t \in Nows : \A u \in Nows : t <= u
    /\ pc = "serving"
    /\ req = NoRequest
    /\ resp = NoResponse
    /\ calls = << >>
    /\ handlers = [g \in 1..MaxHandlers |-> Handling("idle", NoRequest, NoResponse)]
    /\ redIn = NoRedact
    /\ redOut = RedactErr("")

\* a connection's request is decoded and Handle is called in its goroutine
Accept(g) ==
    /\ alive /\ handlers[g].at = "idle"
    /\ \E r \in LabelRequests : handlers' = [handlers EXCEPT ![g] = Handling("accepted", r, NoResponse)]
    /\ UNCHANGED <<policies, DefaultAccount, labelOnce, labelErr, labelIDToName, labelNameToID,
                   alive, now, pc, req, resp, calls, redIn, redOut>>

\* once.Do finds the Once of the account fresh: this goroutine runs the build and
\* invokes gmail.labels.list.  (While the build runs, once.Do blocks the others.)
StartBuild(g) ==
    /\ alive /\ handlers[g].at = "accepted" /\ NeedsLabelMap(handlers[g].req)
    /\ KeyOf(handlers[g].req) \notin labelOnce /\ ~Building(KeyOf(handlers[g].req))
    /\ calls' = calls \o ensureLabelMap(AccountOf(handlers[g].req), Failed).calls
    /\ handlers' = [handlers EXCEPT ![g].at = "building"]
    /\ UNCHANGED <<policies, DefaultAccount, labelOnce, labelErr, labelIDToName, labelNameToID,
                   alive, now, pc, req, resp, redIn, redOut>>

\* the upstream has answered: the build latches its error or installs the label
\* map, and the Once is done
EndBuild(g) ==
    /\ alive /\ handlers[g].at = "building"
    /\ \E e \in {ensureLabelMap(AccountOf(handlers[g].req), lout) : lout \in BuildOuts} :
          /\ labelOnce' = e.once
          /\ labelErr' = e.errs
          /\ labelIDToName' = e.ids
          /\ labelNameToID' = e.names
    /\ handlers' = [handlers EXCEPT ![g].at = "built"]
    /\ UNCHANGED <<policies, DefaultAccount, alive, now, pc, req, resp, calls, redIn, redOut>>

\* once.Do has returned, or was not called: Handle reads the latched error and
\* goes on to its response, the upstream answering the request's own invocation
Finish(g) ==
    /\ alive
    /\ \/ handlers[g].at = "built"
       \/ /\ handlers[g].at = "accepted"
          /\ ~NeedsLabelMap(handlers[g].req) \/ KeyOf(handlers[g].req) \in labelOnce
    /\ \E h \in HandleOutcomes(handlers[g].req, now, {Failed}, {Failed},
                                OutsFor(handlers[g].req.Action) \ {Failed}) :
          /\ handlers' = [handlers EXCEPT ![g] = Handling("answered", handlers[g].req, h.resp)]
          /\ calls' = calls \o h.calls
          /\ labelOnce' = h.once
          /\ labelErr' = h.errs
          /\ labelIDToName' = h.ids
          /\ labelNameToID' = h.names
          /\ alive' = ~h.crash
    /\ UNCHANGED <<policies, DefaultAccount, now, pc, req, resp, redIn, redOut>>

LabelsNext == \E g \in 1..MaxHandlers : Accept(g) \/ StartBuild(g) \/ EndBuild(g) \/ Finish(g)

SpecLabels == LabelsInit /\ [][LabelsNext]_vars

----------------------------------------------------------------------------
(* What the specification says of the broker, on the request Handle has served *)

\* Handle has run on req
Served == pc \in {"done", "crashed"}

Resolved == PolicySetResolve(policies, req.Account, DefaultAccount)

\* Handle reached resolvePolicy with req and it gave a policy
WellFormed == req.ID # "" /\ req.Action # "" /\ Resolved.err = ""

\* the policy req resolves to, with the label maps the broker holds for it
ReqPolicy == PolicyOf(Resolved.account)

AllowedActionsOf(p) == {TrimSpace(p.AllowedActions[i]) : i \in 1..Len(p.AllowedActions)}

\* where the command starts in an invocation: after [--account a] --json --no-input
CommandAt(call) == IF call[1] = "--account" THEN 5 ELSE 3

IsCommand(call, command) ==
    Len(call) >= CommandAt(call) + Len(command) - 1
    /\ SubSeq(call, CommandAt(call), CommandAt(call) + Len(command) - 1) = command

\* the arguments that follow the command
ArgsOf(call, command) == SubSeq(call, CommandAt(call) + Len(command), Len(call))

\* the values that follow a flag in a list of arguments
FlagValues(args, flag) == {args[i + 1] : i \in {j \in 1..(Len(args) - 1) : args[j] = flag}}

\* C1 -- allowlist soundness: a request that Handle resolves to a policy P and whose
\* action is not among P's allowed actions is answered ok = false with the code
\* forbidden, and no upstream invocation is made for it (not the action's, not the
\* label-map build's).
C1_AllowlistSoundness ==
    (Served /\ WellFormed /\ req.Action \notin AllowedActionsOf(ReqPolicy))
    => (pc = "done" /\ ~resp.Ok /\ resp.Error.Code = "forbidden" /\ resp.ID = req.ID
        /\ calls = << >>)

\* a request for an action the broker knows, refused for the account's policy
C1_Witness ==
    /\ pc = "done" /\ WellFormed
    /\ req.Action \in SeqToSet(AllActions) \ AllowedActionsOf(ReqPolicy)
    /\ resp.Error.Code = "forbidden" /\ calls = << >>

\* the JSON scalars a value holds at any depth of lists: strings as they are,
\* numbers as the argument builder prints them
RECURSIVE ScalarsIn(_)
ScalarsIn(val) ==
    IF val.t = "str" THEN {val.v}
    ELSE IF val.t = "num" THEN {Itoa(val.v)}
    ELSE IF val.t = "list" THEN UNION {ScalarsIn(val.v[i]) : i \in 1..Len(val.v)}
    ELSE {}

\* the names a parameter gives, one or several to a string, separated by commas
NamesIn(params, key) ==
    IF ~Has(params, key) THEN {}
    ELSE UNION {{TrimSpace(part) : part \in SeqToSet(Split(text, ","))} \ {""} :
                   text \in ScalarsIn(params[key])}

\* the recipient addresses a request names in to, cc and bcc
RecipientsIn(params) ==
    UNION {UNION {SeqToSet(splitRecipients(text)) : text \in ScalarsIn(params[key])} :
              key \in {"to", "cc", "bcc"} \cap DOMAIN params}

AllowedRecipients(p) ==
    {ToLower(TrimSpace(p.Gmail.AllowedSendRecipients[i])) :
        i \in 1..Len(p.Gmail.AllowedSendRecipients)}

\* the recipient addresses the --to, --cc and --bcc arguments of an invocation carry
RecipientsOf(args) ==
    UNION {SeqToSet(splitRecipients(text)) :
              text \in FlagValues(args, "--to") \cup FlagValues(args, "--cc")
                       \cup FlagValues(args, "--bcc")}

\* C2 -- direct send only to allowlisted recipients: with a non-empty
\* allowed_send_recipients, a gmail.send request leads to an upstream "gmail send"
\* only if draft_only is false and every recipient address the --to/--cc/--bcc
\* arguments carry is in allowed_send_recipients, whatever the JSON shape of to, cc
\* and bcc.  Handle does not keep it: collectRecipients reads only the strings of a
\* list, buildArgs flattens the list and passes its first value.
C2_DirectSendOnlyToAllowlisted ==
    \A i \in 1..Len(calls) :
        (WellFormed /\ req.Action = "gmail.send"
         /\ Len(ReqPolicy.Gmail.AllowedSendRecipients) > 0
         /\ IsCommand(calls[i], <<"gmail", "send">>))
        => (~ReqPolicy.Gmail.DraftOnly
            /\ RecipientsOf(ArgsOf(calls[i], <<"gmail", "send">>)) \subseteq
                   AllowedRecipients(ReqPolicy))

\* the conditions under which a gmail.send must become a draft
MustDraft(p, params) ==
    \/ p.Gmail.DraftOnly
    \/ /\ Len(p.Gmail.AllowedSendRecipients) > 0
       /\ (RecipientsIn(params) = {} \/ ~(RecipientsIn(params) \subseteq AllowedRecipients(p)))

\* C3 -- draft substitution: for a gmail.send under draft_only, or with a non-empty
\* allowed_send_recipients and a recipient outside it or no recipient at all, every
\* upstream invocation is "gmail drafts create" and an ok response carries the
\* warnings action_rewritten:gmail.drafts.create and draft_only:<reason>.  Handle does
\* not keep it, for the recipients collectRecipients does not read (C2).
C3_DraftSubstitution ==
    (pc = "done" /\ WellFormed /\ req.Action = "gmail.send"
     /\ MustDraft(ReqPolicy, req.Params))
    => /\ \A i \in 1..Len(calls) : IsCommand(calls[i], <<"gmail", "drafts", "create">>)
       /\ resp.Ok =>
             /\ "action_rewritten:gmail.drafts.create" \in SeqToSet(resp.Warnings)
             /\ \E w \in SeqToSet(resp.Warnings) : HasPrefix(w, "draft_only:")

IsModify(call) ==
    IsCommand(call, <<"gmail", "thread", "modify">>)
    \/ IsCommand(call, <<"gmail", "labels", "modify">>)

\* the labels the values of a flag carry, comma-separated
LabelsOf(call, flag) ==
    UNION {{TrimSpace(part) : part \in SeqToSet(Split(text, ","))} \ {""} :
              text \in FlagValues(call, flag)}

\* a request names a label the allowlist does not hold (none, when it is empty)
NamesOther(p, params, key, allowed) ==
    \E label \in NamesIn(params, key) : ~isLabelAllowed(p, label, allowed)

\* C4 -- label-modify safety: every label that reaches --add matches
\* allowed_add_labels and every label that reaches --remove matches
\* allowed_remove_labels; a request whose add or remove value, of any JSON shape,
\* names another label (or any, when the allowlist is empty) is refused forbidden and
\* nothing is invoked.  Handle does not keep it: getStringSlice reads only the strings
\* of a list, and rewriteGmailThreadModify leaves a value it read no label from as it
\* came, for buildArgs to flatten.
C4_LabelModifySafety ==
    (Served /\ WellFormed /\ req.Action \in {"gmail.thread.modify", "gmail.labels.modify"})
    => /\ \A i \in 1..Len(calls) :
             IsModify(calls[i])
             => /\ \A label \in LabelsOf(calls[i], "--add") :
                      isLabelAllowed(ReqPolicy, label, ReqPolicy.Gmail.AllowedAddLabels)
                /\ \A label \in LabelsOf(calls[i], "--remove") :
                      isLabelAllowed(ReqPolicy, label, ReqPolicy.Gmail.AllowedRemoveLabels)
       /\ (NamesOther(ReqPolicy, req.Params, "add", ReqPolicy.Gmail.AllowedAddLabels)
           \/ NamesOther(ReqPolicy, req.Params, "remove", ReqPolicy.Gmail.AllowedRemoveLabels))
          => (pc = "done" /\ ~resp.Ok /\ resp.Error.Code = "forbidden" /\ calls = << >>)

IsCalendarQuery(call) ==
    IsCommand(call, <<"calendar", "events">>) \/ IsCommand(call, <<"calendar", "freebusy">>)

\* the calendar ids of the positional argument of calendar events / freebusy
CalendarsOf(call) == SeqToSet(Split(ArgsOf(call, <<"calendar", "events">>)[1], ","))

\* C5 -- calendar allowlist: with a non-empty allowed_calendars, every calendar id
\* in the positional argument of an upstream calendar events / calendar freebusy is
\* in allowed_calendars, and a request naming another calendar, in calendar_id or in
\* an element of calendar_ids of any JSON shape, is refused forbidden and nothing is
\* invoked.  Handle does not keep it: getStringSlice reads only the strings of a list,
\* and rewriteCalendarFreeBusy resolves the range, asking the upstream for the time
\* zone, before it looks at calendar_ids.
C5_CalendarAllowlist ==
    (Served /\ WellFormed /\ req.Action \in {"calendar.events", "calendar.freebusy"}
     /\ ReqPolicy.HasCalendar /\ Len(ReqPolicy.Calendar.AllowedCalendars) > 0)
    => /\ \A i \in 1..Len(calls) :
             IsCalendarQuery(calls[i])
             => CalendarsOf(calls[i]) \subseteq SeqToSet(ReqPolicy.Calendar.AllowedCalendars)
       /\ (\E id \in NamesIn(req.Params, IF req.Action = "calendar.events"
                                         THEN "calendar_id" ELSE "calendar_ids") :
              id \notin SeqToSet(ReqPolicy.Calendar.AllowedCalendars))
          => (pc = "done" /\ ~resp.Ok /\ resp.Error.Code = "forbidden" /\ calls = << >>)

\* the queries the upstream "gmail search" invocations carry
SentQueries ==
    {ArgsOf(calls[i], <<"gmail", "search">>)[1] :
        i \in {j \in 1..Len(calls) : IsCommand(calls[j], <<"gmail", "search">>)
                                     /\ Len(ArgsOf(calls[j], <<"gmail", "search">>)) > 0}}

\* a newer_than:Nd clause of query with N no more than maxDays
RecentClause(query, maxDays) ==
    \E i \in 1..Len(query) :
        /\ NewerThanAt(query, i).ok
        /\ Atoi(NewerThanAt(query, i).s).ok
        /\ Atoi(NewerThanAt(query, i).s).n <= maxDays

\* an after:YYYY/MM/DD clause of query whose date is not older than t - maxDays days
DatedClause(query, maxDays, t) ==
    \E i \in 1..Len(query) :
        /\ AfterAt(query, i).ok
        /\ ParseDateAt(AfterAt(query, i).s).ok
        /\ ParseDateAt(AfterAt(query, i).s).t >= t - maxDays * SecondsPerDay

HasClause(query) == \E i \in 1..Len(query) : NewerThanAt(query, i).ok \/ AfterAt(query, i).ok

\* C6 -- query window: with gmail.max_days > 0, for a gmail.search or
\* gmail.thread.list answered ok, a query was sent upstream and every query sent has a
\* newer_than:Nd clause with N <= max_days or an after:YYYY/MM/DD clause whose date is
\* not older than now - max_days days; when the incoming query has neither clause, the
\* query sent is the incoming one with " newer_than:{max_days}d" appended and the
\* response carries the warning query_rewritten:newer_than.
C6_QueryWindow ==
    (pc = "done" /\ WellFormed /\ req.Action \in {"gmail.search", "gmail.thread.list"}
     /\ resp.Ok /\ ReqPolicy.HasGmail /\ ReqPolicy.Gmail.MaxDays > 0)
    => /\ SentQueries # {}
       /\ \A sent \in SentQueries :
             \/ RecentClause(sent, ReqPolicy.Gmail.MaxDays)
             \/ DatedClause(sent, ReqPolicy.Gmail.MaxDays, now)
       /\ ~HasClause(getString(req.Params, "query").s)
          => /\ \A sent \in SentQueries :
                   Contains(sent, TrimSpace(getString(req.Params, "query").s) \o " newer_than:"
                                  \o Itoa(ReqPolicy.Gmail.MaxDays) \o "d")
             /\ "query_rewritten:newer_than" \in SeqToSet(resp.Warnings)

\* a search without a window, answered ok with the window appended
C6_Witness ==
    /\ pc = "done" /\ WellFormed /\ req.Action = "gmail.search" /\ resp.Ok
    /\ ReqPolicy.Gmail.MaxDays > 0
    /\ ~HasClause(getString(req.Params, "query").s)
    /\ "query_rewritten:newer_than" \in SeqToSet(resp.Warnings)
    /\ \E sent \in SentQueries : RecentClause(sent, ReqPolicy.Gmail.MaxDays)

\* the arguments of the upstream "gmail get" invocations
GetArgs ==
    {ArgsOf(calls[i], <<"gmail", "get">>) :
        i \in {j \in 1..Len(calls) : IsCommand(calls[j], <<"gmail", "get">>)}}

\* C7 -- format lock: every upstream invocation made for a gmail.get request has
\* --format metadata and no --headers among its arguments; a request with an explicit
\* format (a non-empty string) other than metadata is refused; a headers parameter is
\* removed and the response carries the warning headers_ignored:default.  Handle does
\* not keep it: the message id is passed as it came, and one that reads --headers
\* stands among the arguments as that flag.
C7_FormatLock ==
    (Served /\ WellFormed /\ req.Action = "gmail.get")
    => /\ \A args \in GetArgs :
             /\ \E j \in 1..(Len(args) - 1) : args[j] = "--format" /\ args[j + 1] = "metadata"
             /\ "--headers" \notin SeqToSet(args)
       /\ (getString(req.Params, "format").ok
           /\ getString(req.Params, "format").s \notin {"", "metadata"})
          => (pc = "done" /\ ~resp.Ok /\ resp.Error.Code = "forbidden" /\ calls = << >>)
       /\ (Has(req.Params, "headers") /\ pc = "done" /\ resp.Ok)
          => "headers_ignored:default" \in SeqToSet(resp.Warnings)

----------------------------------------------------------------------------
(* What the specification says of the redactor, on the answer Redact was applied to *)

\* Redact has returned data for an answer to a Gmail action
RedactedGmail == pc = "redacted" /\ redIn.action \in GmailActions /\ redOut.err = ""

\* the sum of the numbers a function gives
RECURSIVE SumOf(_)
SumOf(f) ==
    IF DOMAIN f = {} THEN 0
    ELSE f[CHOOSE x \in DOMAIN f : TRUE]
         + SumOf([y \in DOMAIN f \ {CHOOSE x \in DOMAIN f : TRUE} |-> f[y]])

\* the keys of the maps at any depth of a value
RECURSIVE KeysIn(_)
KeysIn(val) ==
    IF val.t = "map" THEN DOMAIN val.v \cup UNION {KeysIn(val.v[k]) : k \in DOMAIN val.v}
    ELSE IF val.t = "list" THEN UNION {KeysIn(val.v[i]) : i \in 1..Len(val.v)}
    ELSE {}

\* the string values at any depth of a value
RECURSIVE StringsIn(_)
StringsIn(val) ==
    IF val.t = "str" THEN {val.v}
    ELSE IF val.t = "map" THEN UNION {StringsIn(val.v[k]) : k \in DOMAIN val.v}
    ELSE IF val.t = "list" THEN UNION {StringsIn(val.v[i]) : i \in 1..Len(val.v)}
    ELSE {}

\* the keys never returned, and those not returned without allow_body
NeverReturned(pol) ==
    {"attachment", "attachments", "snippetHtml", "snippet_html"}
    \cup (IF pol.Gmail.AllowBody THEN {}
          ELSE {"body", "payload", "parts", "raw", "html", "htmlbody", "mime", "mimeType"})

\* with them, the keys a calendar policy without allow_details has dropped
Dropping(pol) ==
    NeverReturned(pol)
    \cup (IF pol.HasCalendar /\ ~pol.Calendar.AllowDetails THEN calendarDetailKeys ELSE {})

\* how many times key stands in val, at any depth but not beneath a key of dropped
RECURSIVE Standing(_, _, _)
Standing(val, key, dropped) ==
    IF val.t = "map"
    THEN SumOf([k \in DOMAIN val.v |->
                   IF k \in dropped THEN (IF k = key THEN 1 ELSE 0)
                   ELSE Standing(val.v[k], key, dropped)])
    ELSE IF val.t = "list"
    THEN SumOf([i \in 1..Len(val.v) |-> Standing(val.v[i], key, dropped)])
    ELSE 0

Count(list, x) == Cardinality({i \in 1..Len(list) : list[i] = x})

\* C8 -- body and attachment fields: the data Redact returns for a Gmail action has
\* at no depth a key attachment, attachments, snippetHtml or snippet_html, nor, when
\* gmail.allow_body is false, a key body, payload, parts, raw, html, htmlbody, mime or
\* mimeType; and for each such key there is one warning redacted:<key> for each place
\* where the key was dropped.
C8_BodyAndAttachmentsDropped ==
    RedactedGmail
    => /\ KeysIn(redOut.data) \cap NeverReturned(redIn.pol) = {}
       /\ \A key \in NeverReturned(redIn.pol) :
             Count(redOut.warnings, "redacted:" \o key)
                 = Standing(redIn.data, key, Dropping(redIn.pol))

\* an answer with a body key and an attachment key, both dropped and warned of
C8_Witness ==
    /\ RedactedGmail /\ ~redIn.pol.Gmail.AllowBody
    /\ {"payload", "attachments"} \subseteq KeysIn(redIn.data)
    /\ KeysIn(redOut.data) \cap {"payload", "attachments"} = {}
    /\ {"redacted:payload", "redacted:attachments"} \subseteq SeqToSet(redOut.warnings)

\* C9 as the specification has it -- link removal: when gmail.allow_links is false, no
\* string value at any depth of the data Redact returns for a Gmail action contains
\* http:// or https://.  urlRe wants a character after the scheme, so a scheme that
\* ends the string or stands before white space is left.
C9_LinkRemoval ==
    (RedactedGmail /\ ~redIn.pol.Gmail.AllowLinks)
    => \A str \in StringsIn(redOut.data) :
          ~Contains(str, "http://") /\ ~Contains(str, "https://")

\* scheme stands in str at i with a character other than white space after it
LinkAt(str, i, scheme) ==
    /\ OccursAt(str, i, scheme)
    /\ i + Len(scheme) <= Len(str)
    /\ ~IsReSpace(Chr(str, i + Len(scheme)))

\* C9 -- link removal: when gmail.allow_links is false, no string value at any depth
\* of the data Redact returns for a Gmail action contains http:// or https:// followed
\* by a character other than white space (space, tab, newline, carriage return, form
\* feed).
C9_NoLinkLeft ==
    (RedactedGmail /\ ~redIn.pol.Gmail.AllowLinks)
    => \A str \in StringsIn(redOut.data) :
          \A i \in 1..Len(str) : ~LinkAt(str, i, "http://") /\ ~LinkAt(str, i, "https://")

\* an answer with a link in a string that is returned, the link replaced
C9_Witness ==
    /\ RedactedGmail /\ ~redIn.pol.Gmail.AllowLinks
    /\ \E str \in StringsIn(redIn.data) : \E i \in 1..Len(str) : LinkAt(str, i, "http://")
    /\ \E str \in StringsIn(redOut.data) : Contains(str, "[redacted]")
    /\ "redacted:string" \in SeqToSet(redOut.warnings)

\* the threads of a search answer
ThreadsOf(data) == IF Listed(data, "threads") THEN data.v["threads"].v ELSE << >>

\* the labels a list carries, trimmed and lower-cased
Carried(val) ==
    IF val.t # "list" THEN {}
    ELSE {ToLower(TrimSpace(val.v[i].v)) : i \in {j \in 1..Len(val.v) : val.v[j].t = "str"}}

\* the labels of the label lists of a thread
LabelsCarried(thread) ==
    IF thread.t # "map" THEN {}
    ELSE UNION {Carried(thread.v[k]) : k \in {"labels", "labelIds", "label_ids"} \cap DOMAIN thread.v}

\* allowed_read_labels, with the names and the ids the label map gives for them
Readable(pol) ==
    UNION {{ToLower(TrimSpace(pol.Gmail.AllowedReadLabels[i]))}
           \cup (IF LabelNameForID(pol, pol.Gmail.AllowedReadLabels[i]).ok
                 THEN {ToLower(LabelNameForID(pol, pol.Gmail.AllowedReadLabels[i]).s)} ELSE {})
           \cup (IF LabelIDForName(pol, pol.Gmail.AllowedReadLabels[i]).ok
                 THEN {ToLower(LabelIDForName(pol, pol.Gmail.AllowedReadLabels[i]).s)} ELSE {}) :
              i \in 1..Len(pol.Gmail.AllowedReadLabels)} \ {""}

\* C10 -- label containment for search: with a non-empty gmail.allowed_read_labels,
\* every thread in the data Redact returns for gmail.search or gmail.thread.list has
\* a label list (labels, labelIds or label_ids) with a label of allowed_read_labels,
\* directly or through the label map; and the warning filtered:labels is there exactly
\* when fewer threads are returned than the answer had.
C10_LabelContainment ==
    (RedactedGmail /\ redIn.action \in {"gmail.search", "gmail.thread.list"}
     /\ Len(redIn.pol.Gmail.AllowedReadLabels) > 0)
    => /\ \A i \in 1..Len(ThreadsOf(redOut.data)) :
             LabelsCarried(ThreadsOf(redOut.data)[i]) \cap Readable(redIn.pol) # {}
       /\ Len(ThreadsOf(redOut.data)) <= Len(ThreadsOf(redIn.data))
       /\ "filtered:labels" \in SeqToSet(redOut.warnings)
          <=> Len(ThreadsOf(redOut.data)) # Len(ThreadsOf(redIn.data))

\* a search answer of two threads, one returned through the label map, one removed
C10_Witness ==
    /\ RedactedGmail /\ redIn.action = "gmail.search"
    /\ redIn.pol.Gmail.AllowedReadLabels = <<"Label_1">>
    /\ Len(ThreadsOf(redIn.data)) = 2 /\ Len(ThreadsOf(redOut.data)) = 1
    /\ "family" \in LabelsCarried(ThreadsOf(redOut.data)[1])
    /\ "filtered:labels" \in SeqToSet(redOut.warnings)

----------------------------------------------------------------------------
(* What the specification says of the check of the labels of an answer *)

\* the actions whose answer must carry an allowed label where it carries labels
LabelCheckedActions ==
    {"gmail.labels.get", "gmail.thread.get", "gmail.get", "gmail.labels.modify",
     "gmail.thread.modify"}

IsLabelIDsKey(key) == EqualFold(key, "labelIds") \/ EqualFold(key, "label_ids")

\* the strings of a list, lower-cased
FoldedStrings(items) == {ToLower(items[i].v) : i \in {j \in 1..Len(items) : items[j].t = "str"}}

\* the arrays under a key labelIds or label_ids at any depth of a value, each as the
\* set of its strings, lower-cased
RECURSIVE LabelArrays(_)
LabelArrays(val) ==
    IF val.t = "map"
    THEN {FoldedStrings(val.v[k].v) :
             k \in {j \in DOMAIN val.v : IsLabelIDsKey(j) /\ val.v[j].t = "list"}}
         \cup UNION {LabelArrays(val.v[k]) : k \in DOMAIN val.v}
    ELSE IF val.t = "list" THEN UNION {LabelArrays(val.v[i]) : i \in 1..Len(val.v)}
    ELSE {}

\* Redact ran the label check on the tree it had cleaned
LabelCheckRan ==
    /\ pc = "redacted" /\ redIn.action \in LabelCheckedActions
    /\ redIn.pol.HasGmail /\ Len(redIn.pol.Gmail.AllowedReadLabels) > 0

CleanTree == redactAny(redIn.data, redIn.pol).val

\* C11 -- read-label response check: for gmail.labels.get, gmail.thread.get,
\* gmail.get, gmail.labels.modify and gmail.thread.modify with a non-empty
\* allowed_read_labels, Redact fails with "response does not include allowed labels"
\* exactly when the tree has at least one labelIds/label_ids array and none of them,
\* anywhere in the tree, has a label of the allowlist; when any of them has one the
\* answer is returned, whatever the order of the messages and keys.
C11_ReadLabelCheck ==
    LabelCheckRan
    => (redOut.err = "response does not include allowed labels"
        <=> /\ LabelArrays(CleanTree) # {}
            /\ \A labels \in LabelArrays(CleanTree) :
                  labels \cap FoldSet(redIn.pol.Gmail.AllowedReadLabels) = {})

----------------------------------------------------------------------------
(* What the specification says of the parameters gmail.send refuses *)

\* params carry a parameter policy p refuses for gmail.send
SendRefused(p, params) ==
    \/ Has(params, "track") \/ Has(params, "track_split") \/ Has(params, "reply_all")
    \/ Has(params, "thread_id") /\ p.Gmail.DraftOnly
    \/ Has(params, "attach") /\ ~p.Gmail.AllowAttachments

\* C12 -- gmail.send parameter rejections: a gmail.send request carrying track,
\* track_split or reply_all, or thread_id while draft_only is true, or attach while
\* allow_attachments is false, is answered forbidden, and no upstream invocation,
\* send or draft, is made.
C12_SendRejections ==
    (Served /\ WellFormed /\ req.Action = "gmail.send" /\ ReqPolicy.HasGmail
     /\ SendRefused(ReqPolicy, req.Params))
    => (pc = "done" /\ ~resp.Ok /\ resp.Error.Code = "forbidden" /\ calls = << >>)

\* a send with thread_id under a draft_only policy that allows gmail.send, refused
\* by the rewrite
C12_Witness ==
    /\ pc = "done" /\ WellFormed /\ req.Action = "gmail.send"
    /\ "gmail.send" \in AllowedActionsOf(ReqPolicy)
    /\ ReqPolicy.Gmail.DraftOnly /\ Has(req.Params, "thread_id")
    /\ resp.Error = NewError("forbidden", "thread_id is not supported in draft_only mode")
    /\ calls = << >>

----------------------------------------------------------------------------
(* What the specification says of the label map, on connections served at once *)

\* the gmail.labels.list invocations made for an account since the process started
ListCalls(account) ==
    {i \in 1..Len(calls) : /\ IsCommand(calls[i], <<"gmail", "labels", "list">>)
                           /\ calls[i][1] = "--account" /\ calls[i][2] = account}

\* a step writes the label map of an account
MapWritten(account) ==
    \/ labelIDToName'[account] # labelIDToName[account]
    \/ labelNameToID'[account] # labelNameToID[account]

\* the label map of an account has not been written
MapUnwritten(account) == labelIDToName[account] = NilMap /\ labelNameToID[account] = NilMap

\* C13 -- label-map singleton: over any number of gmail.search and gmail.thread.list
\* requests for one account, served at once or one after another, the build of the
\* label map invokes gmail.labels.list at most once for the account while the process
\* lives, and the account's label map is written at most once.
C13_LabelMapSingleton ==
    /\ [](\A account \in DOMAIN policies.Accounts : Cardinality(ListCalls(account)) <= 1)
    /\ [][\A account \in DOMAIN policies.Accounts :
             MapWritten(account) => MapUnwritten(account)]_vars

\* requests for one account on every connection, under two spellings, all answered
\* from the one build, whose map is installed
C13_Witness ==
    /\ \A g \in 1..MaxHandlers :
          handlers[g].at = "answered" /\ NeedsLabelMap(handlers[g].req)
          /\ AccountOf(handlers[g].req) = "a@x.com" /\ handlers[g].resp.Ok
    /\ \E g \in 1..MaxHandlers : handlers[g].req.Account = " A@X.com "
    /\ Cardinality(ListCalls("a@x.com")) = 1
    /\ ~MapUnwritten("a@x.com")

\* the invocations made for an account that are neither the build's gmail.labels.list
\* nor the gmail get of a request that needs no label map
SearchCalls(account) ==
    {i \in 1..Len(calls) : /\ calls[i][1] = "--account" /\ calls[i][2] = account
                           /\ ~IsCommand(calls[i], <<"gmail", "labels", "list">>)
                           /\ ~IsCommand(calls[i], <<"gmail", "get">>)}

FailedToResolve == NewError("upstream_error", "failed to resolve label ids")

\* handler g has answered a request that needed the label map of its account
AnsweredWithMap(g) == handlers[g].at = "answered" /\ NeedsLabelMap(handlers[g].req)

\* C14 -- latched build failure: once the build of the label map of an account has
\* failed (upstream error, the first caller's context cancelled, labels missing,
\* invalid or empty), every waiter and every later gmail.search or gmail.thread.list
\* request for the account that needs the map is answered upstream_error, "failed to
\* resolve label ids", the build is not tried again and nothing is invoked upstream
\* for the request; requests for other accounts are not affected.
C14_LatchedBuildFailure ==
    /\ [](\A g \in DOMAIN handlers :
             AnsweredWithMap(g)
             => IF getLabelErr(AccountOf(handlers[g].req)) # ""
                THEN ~handlers[g].resp.Ok /\ handlers[g].resp.Error = FailedToResolve
                ELSE handlers[g].resp.Ok)
    /\ [](\A account \in DOMAIN policies.Accounts :
             getLabelErr(account) # ""
             => Cardinality(ListCalls(account)) = 1 /\ SearchCalls(account) = {})
    /\ [][\A account \in DOMAIN policies.Accounts :
             getLabelErr(account) # "" => labelErr'[labelKey(account)] = labelErr[labelKey(account)]]_vars

\* the build for one account has failed and both the builder and a second request for
\* the account were answered with the latched failure, nothing but the one
\* gmail.labels.list having been invoked
C14_Witness ==
    /\ getLabelErr("a@x.com") = "labels missing"
    /\ \A g \in 1..MaxHandlers :
          AnsweredWithMap(g) /\ AccountOf(handlers[g].req) = "a@x.com"
          /\ handlers[g].resp.Error = FailedToResolve
    /\ Len(calls) = 1

----------------------------------------------------------------------------
(* What the specification says of the account a request is served for *)

\* the policy set has one account and no default_account
SoleAccountSet == Cardinality(DOMAIN policies.Accounts) = 1 /\ policies.DefaultAccount = ""

TheSoleAccount == CHOOSE a \in DOMAIN policies.Accounts : TRUE

AccountErrors == {ErrAccountRequired, ErrAccountNotAllowed}

\* the calendar list of the time-zone provider, which runs on the broker's own runner
ByZoneProvider(call) ==
    /\ req.Action \in {"calendar.events", "calendar.freebusy"}
    /\ IsCommand(call, <<"calendar", "calendars">>)

\* Handle served the request for the account: it was not refused for its account,
\* it was refused for its action exactly when the account's policy does not allow
\* it, and whatever Handle invoked upstream was invoked for the account
ServedFor(account) ==
    /\ Resolved.err = "" /\ Resolved.account = account
    /\ resp.Error.Message \notin AccountErrors
    /\ (resp.Error = NewError("forbidden", "action not allowed"))
       <=> req.Action \notin AllowedActionsOf(PolicyOf(account))
    /\ \A i \in 1..Len(calls) :
          ByZoneProvider(calls[i]) \/ (calls[i][1] = "--account" /\ calls[i][2] = account)

\* C15 as the specification has it -- account fallback: with exactly one account in
\* the policy set and no default_account, every request with an empty account resolves
\* to that sole account and is processed under its policy.  Resolve takes the broker's
\* default account before the sole account, so a broker started with a default
\* account the set does not hold refuses the request.
C15_AccountFallback ==
    (Served /\ req.ID # "" /\ req.Action # "" /\ SoleAccountSet /\ req.Account = "")
    => ServedFor(TheSoleAccount)

\* C15 -- account fallback: with exactly one account in the policy set, no
\* default_account and no default account of the broker, every request with an empty
\* account resolves to that sole account and is processed under its policy.
C15_SoleAccountFallback ==
    (Served /\ req.ID # "" /\ req.Action # "" /\ SoleAccountSet
     /\ normalizeAccount(DefaultAccount) = "" /\ req.Account = "")
    => ServedFor(TheSoleAccount)

\* a request without account answered from the upstream invoked for the one account
C15_Witness ==
    /\ pc = "done" /\ SoleAccountSet /\ normalizeAccount(DefaultAccount) = ""
    /\ req.ID # "" /\ req.Account = "" /\ req.Action = "gmail.get"
    /\ resp.Ok /\ Len(calls) = 1 /\ calls[1][2] = "c@x.com"

\* the account of the request, lower-cased and trimmed
GivenAccount == ToLower(TrimSpace(req.Account))

\* the account the specification's order of fallbacks gives: the request's own, the
\* policy set's default_account, the broker's default account, the sole account
ExpectedAccount ==
    IF GivenAccount # "" THEN GivenAccount
    ELSE IF policies.DefaultAccount # "" THEN policies.DefaultAccount
    ELSE IF ToLower(TrimSpace(DefaultAccount)) # "" THEN ToLower(TrimSpace(DefaultAccount))
    ELSE IF Cardinality(DOMAIN policies.Accounts) = 1 THEN TheSoleAccount
    ELSE ""

\* C16 -- account resolution: the request's account is lower-cased and trimmed before
\* the lookup; when it is empty it falls back, in this order, to the policy set's
\* default_account, the broker's default account, then the sole account if there is
\* exactly one.  When it is still empty the response is bad_request (account
\* required); when the resolved name is not a key of the policy set the response is
\* forbidden (account not allowed); in both cases nothing is invoked upstream.
C16_AccountResolution ==
    (Served /\ req.ID # "" /\ req.Action # "")
    => IF ExpectedAccount = ""
       THEN pc = "done" /\ ~resp.Ok /\ resp.Error = NewError("bad_request", ErrAccountRequired)
            /\ calls = << >>
       ELSE IF ExpectedAccount \notin DOMAIN policies.Accounts
       THEN pc = "done" /\ ~resp.Ok /\ resp.Error = NewError("forbidden", ErrAccountNotAllowed)
            /\ calls = << >>
       ELSE ServedFor(ExpectedAccount)

\* a request whose account is spelled with capitals and spaces, answered from the
\* upstream invoked for the account of the policy set
C16_Witness ==
    /\ pc = "done" /\ req.ID # "" /\ req.Account = " B@x.com "
    /\ ExpectedAccount = "b@x.com" /\ policies.DefaultAccount = "" /\ DefaultAccount = "a@x.com"
    /\ resp.Ok /\ Len(calls) = 1 /\ calls[1][2] = "b@x.com"

----------------------------------------------------------------------------
(* What the specification says of the params the upstream command has no place for *)

\* the param names of the positional and flag tables of an action
TableKeys(action) ==
    SeqToSet(actionSpecs[SpecKey(action)].Positional)
    \cup FlagKeys(actionSpecs[SpecKey(action)].ParamFlags)
    \cup FlagKeys(actionSpecs[SpecKey(action)].MultiValueFlag)

\* the request names a param that is in none of the tables of its action
HasUnknownParam ==
    /\ SpecKey(req.Action) \in DOMAIN actionSpecs
    /\ DOMAIN req.Params \ TableKeys(req.Action) # {}

\* C17 -- unknown-params rejection: for every action, a request supplying a param
\* name that is not in the action's positional and flag tables is answered with the
\* error code bad_request, and no subprocess is spawned for it.  (Checked on the
\* requests the policy does not refuse first.)
C17_UnknownParamsRejected ==
    (Served /\ WellFormed /\ req.Action \in AllowedActionsOf(ReqPolicy) /\ HasUnknownParam
     /\ resp.Error.Code # "forbidden")
    => (pc = "done" /\ ~resp.Ok /\ resp.Error.Code = "bad_request" /\ calls = << >>)

----------------------------------------------------------------------------
(* What the specification says of the calendar range and of Handle returning *)

IsCalendarRange == req.Action \in {"calendar.events", "calendar.freebusy"}

\* the seconds between the absolute from and to of the request
AbsoluteSpan ==
    parseAbsoluteTime(timeFlags(req.Params).To).t - parseAbsoluteTime(timeFlags(req.Params).From).t

\* the request gives from and to (time_min and time_max) as absolute timestamps and
\* nothing relative, to is not before from, and the span is within max_days
AbsoluteInRange ==
    /\ IsCalendarRange /\ ReqPolicy.HasCalendar
    /\ ~needsTZ(timeFlags(req.Params))
    /\ parseAbsoluteTime(timeFlags(req.Params).From).ok
    /\ parseAbsoluteTime(timeFlags(req.Params).To).ok
    /\ AbsoluteSpan >= 0
    /\ ReqPolicy.Calendar.MaxDays > 0 => AbsoluteSpan <= ReqPolicy.Calendar.MaxDays * SecondsPerDay

\* C18 -- every request is answered: a calendar.events or calendar.freebusy request
\* whose from and to (time_min and time_max) are both absolute timestamps, with to
\* not before from and the span within max_days, completes its rewrite without the
\* time-zone provider being consulted, and Handle returns a response; and for every
\* request Handle ends with a response (no step of a rewrite diverges).  Stated on
\* the requests Handle has been run on: it has returned the request's response.
C18_EveryRequestAnswered ==
    /\ (Served /\ WellFormed /\ req.Action \in AllowedActionsOf(ReqPolicy) /\ AbsoluteInRange)
       => (pc = "done" /\ resp.ID = req.ID /\ \A i \in 1..Len(calls) : ~ByZoneProvider(calls[i]))
    /\ Served => (pc = "done" /\ resp.ID = req.ID)

\* the arguments that follow calendar events / calendar freebusy
RangeArgs(call) == ArgsOf(call, <<"calendar", "events">>)

\* the one value of a flag, as an RFC3339 time (not ok when there is none, or several)
FlagTime(call, flag) ==
    IF Cardinality(FlagValues(RangeArgs(call), flag)) = 1
    THEN ParseDateTimeZone(CHOOSE v \in FlagValues(RangeArgs(call), flag) : TRUE, TRUE)
    ELSE NoTime

\* after the positional argument come only flags of time_min, time_max, max, page
\* and query, each with its value: no other key of the request has reached the call
OnlyTableFlags(call) ==
    /\ Len(RangeArgs(call)) % 2 = 1
    /\ \A i \in 1..Len(RangeArgs(call)) :
          i % 2 = 0 => RangeArgs(call)[i] \in {"--from", "--to", "--max", "--page", "--query"}

\* the range of a call is well formed and within the max_days of the policy
RangeBounded(call, maxDays) ==
    /\ FlagTime(call, "--from").ok /\ FlagTime(call, "--to").ok
    /\ FlagTime(call, "--from").t <= FlagTime(call, "--to").t
    /\ maxDays > 0
       => FlagTime(call, "--to").t - FlagTime(call, "--from").t <= maxDays * SecondsPerDay

\* the request's absolute from and to are in the wrong order or further apart than
\* max_days, or it asks for more days than max_days
OutOfBounds ==
    /\ IsCalendarRange /\ ReqPolicy.HasCalendar
    /\ \/ /\ ~needsTZ(timeFlags(req.Params))
          /\ parseAbsoluteTime(timeFlags(req.Params).From).ok
          /\ parseAbsoluteTime(timeFlags(req.Params).To).ok
          /\ \/ AbsoluteSpan < 0
             \/ /\ ReqPolicy.Calendar.MaxDays > 0
                /\ AbsoluteSpan > ReqPolicy.Calendar.MaxDays * SecondsPerDay
       \/ /\ ~timeFlags(req.Params).Today /\ ~timeFlags(req.Params).Tomorrow
          /\ ~timeFlags(req.Params).Week
          /\ ReqPolicy.Calendar.MaxDays > 0
          /\ timeFlags(req.Params).Days > ReqPolicy.Calendar.MaxDays

\* C19 -- calendar range bound: every upstream calendar events / calendar freebusy
\* invocation carries RFC3339 time_min and time_max (--from, --to) with time_min not
\* after time_max and, when calendar.max_days > 0, no more than max_days x 24h apart;
\* none of the keys from, to, today, tomorrow, week, days, week_start reaches the
\* upstream; and a request that violates the bounds is refused forbidden without the
\* action being invoked upstream.
C19_CalendarRangeBound ==
    (Served /\ WellFormed /\ IsCalendarRange /\ ReqPolicy.HasCalendar)
    => /\ \A i \in 1..Len(calls) :
             IsCalendarQuery(calls[i])
             => RangeBounded(calls[i], ReqPolicy.Calendar.MaxDays) /\ OnlyTableFlags(calls[i])
       /\ (OutOfBounds /\ req.Action \in AllowedActionsOf(ReqPolicy))
          => /\ pc = "done" /\ ~resp.Ok /\ resp.Error.Code = "forbidden"
             /\ \A i \in 1..Len(calls) : ~IsCalendarQuery(calls[i])

\* a request for two days under max_days 3, sent upstream as a range of more than
\* one day and at most two
C19_Witness ==
    /\ pc = "done" /\ WellFormed /\ req.Action = "calendar.events"
    /\ ReqPolicy.Calendar.MaxDays = 3 /\ timeFlags(req.Params).Days = 2
    /\ \E i \in 1..Len(calls) :
          /\ IsCalendarQuery(calls[i]) /\ RangeBounded(calls[i], 2)
          /\ FlagTime(calls[i], "--to").t - FlagTime(calls[i], "--from").t > SecondsPerDay
    /\ resp.Ok

----------------------------------------------------------------------------
(* What the specification says of redacting twice *)

\* Redact has run on the data a first run returned: redIn.data is what the first
\* run returned, redOut what the second did
RedactedTwice == pc = "redacted again"

\* C20 -- redaction idempotence: for every action a, data d and policy p for which
\* redact(a, d, p) succeeds, redacting its result again gives the same data:
\* redact(a, redact(a, d, p), p) = redact(a, d, p).
C20_RedactionIdempotence ==
    RedactedTwice => (redOut.err = "" /\ redOut.data = redIn.data)

\* the same, where the second run has one outcome whatever the order of the keys
C20_OneOutcome ==
    (RedactedTwice /\ Cardinality(Redact(redIn.action, redIn.data, redIn.pol)) = 1)
    => (redOut.err = "" /\ redOut.data = redIn.data)

----------------------------------------------------------------------------
(* What the specification says of errors and of policy.actions *)

\* the request was answered with an error
Refused == pc = "done" /\ resp.ID # "" /\ ~resp.Ok

\* C21 -- no raw subprocess output on error: in every response with ok=false the
\* error message holds nothing of what the upstream process wrote to its standard
\* output or standard error (the details are always empty).
C21_NoRawOutputOnError == Refused => ~Contains(resp.Error.Message, Stderr)

\* l is in ascending order of bytes
Ascending(l) == \A i \in 1..Len(l) : \A j \in i..Len(l) : ~StrLess(l[j], l[i])

\* a and b hold the same strings, each as many times
SameStrings(a, b) ==
    /\ Len(a) = Len(b)
    /\ \A i \in 1..Len(a) :
           Cardinality({j \in 1..Len(a) : a[j] = a[i]}) = Cardinality({j \in 1..Len(b) : b[j] = a[i]})

\* the request is a policy.actions the account's policy allows
AsksActions ==
    Served /\ WellFormed /\ req.Action = "policy.actions"
    /\ req.Action \in AllowedActionsOf(ReqPolicy)

\* C22 -- policy.actions never reaches the upstream: an allowed policy.actions
\* request with empty params is answered ok with the data {account: the resolved
\* account, actions: the policy's allowed_actions in ascending order} and nothing is
\* invoked upstream; with params that are not empty it is refused, and nothing is
\* invoked either.
C22_PolicyActionsLocal ==
    AsksActions
    => /\ pc = "done" /\ resp.ID = req.ID /\ calls = << >>
       /\ IF DOMAIN req.Params = {}
          THEN /\ resp.Ok /\ resp.Data.t = "map"
               /\ DOMAIN resp.Data.v = {"account", "actions"}
               /\ resp.Data.v["account"] = JStr(Resolved.account)
               /\ Ascending(resp.Data.v["actions"].v)
               /\ SameStrings(resp.Data.v["actions"].v, ReqPolicy.AllowedActions)
          ELSE ~resp.Ok /\ resp.Error.Code = "forbidden"

\* a policy.actions request with no params, answered with a list that had to be
\* put in order
C22_Witness ==
    /\ AsksActions /\ DOMAIN req.Params = {} /\ resp.Ok
    /\ ~Ascending(ReqPolicy.AllowedActions)
    /\ resp.Data.v["account"] = JStr("a@x.com")

----------------------------------------------------------------------------
(* What the specification says of the lists of calendars and of labels *)

\* the list the answer holds under key; none when it holds no list there
ListAt(data, key) == IF Listed(data, key) THEN data.v[key].v ELSE << >>

\* the upstream entry is a map whose string under one of the keys is in the set
EntryMatches(item, keys, set) ==
    item.t = "map" /\ \E i \in 1..Len(keys) : ToLower(StrField(item.v, keys[i])) \in set

\* the entries of the upstream's list that match, in their order, each as redacted
RECURSIVE MatchingEntries(_, _, _, _)
MatchingEntries(items, keys, set, pol) ==
    IF Len(items) = 0 THEN << >>
    ELSE (IF EntryMatches(items[1], keys, set) THEN <<redactAny(items[1], pol).val>> ELSE << >>)
         \o MatchingEntries(Tail(items), keys, set, pol)

\* the list returned under key is the matching entries, and the warning is there
\* exactly when an entry was removed
FilteredAs(key, keys, set, warning) ==
    /\ ListAt(redOut.data, key) = MatchingEntries(ListAt(redIn.data, key), keys, set, redIn.pol)
    /\ warning \in SeqToSet(redOut.warnings)
       <=> Len(ListAt(redOut.data, key)) < Len(ListAt(redIn.data, key))

\* Redact has returned the answer to a calendar.list under an allowlist of calendars
CalendarsFiltered ==
    /\ pc = "redacted" /\ redOut.err = "" /\ redIn.action = "calendar.list"
    /\ Len(redIn.pol.Calendar.AllowedCalendars) > 0 /\ Listed(redIn.data, "calendars")

\* Redact has returned the answer to a gmail.labels.list under allowlists of labels
LabelsFiltered ==
    /\ pc = "redacted" /\ redOut.err = "" /\ redIn.action = "gmail.labels.list"
    /\ Len(allowedLabelUnion(redIn.pol.Gmail)) > 0 /\ Listed(redIn.data, "labels")

\* C23 -- collection filters: for calendar.list under a non-empty allowed_calendars,
\* and for gmail.labels.list under a non-empty union of the three label allowlists,
\* the list returned is exactly the upstream's entries, in their order, whose id (for
\* labels: id or name) matches the allowlist, and the warning filtered:calendars /
\* filtered:labels is emitted if and only if at least one entry was removed.
C23_CollectionFilters ==
    /\ CalendarsFiltered
       => FilteredAs("calendars", <<"id">>, LabelSet(redIn.pol.Calendar.AllowedCalendars),
                     "filtered:calendars")
    /\ LabelsFiltered
       => FilteredAs("labels", <<"id", "name">>,
                     SeqToSet(allowedLabelUnion(redIn.pol.Gmail)), "filtered:labels")

\* the same where no sender allowlist masks the e-mail addresses of the answer
C23_Unmasked ==
    Len(redIn.pol.Gmail.AllowedSenders) = 0 => C23_CollectionFilters

----------------------------------------------------------------------------
(* What the specification says of the order of the label-map build and its uses *)

\* isLabelAllowed looks one of the labels up in the label map: the allowlist is not
\* empty and the label is not in it as it stands
LooksUp(labels, allowed) ==
    /\ Len(allowed) > 0
    /\ \E i \in 1..Len(labels) :
           TrimSpace(labels[i]) # "" /\ ToLower(TrimSpace(labels[i])) \notin LowerSet(allowed)

\* the label of a gmail.labels.get request, as a list
AskedLabel(params) ==
    IF getStringAny(params, <<"label", "label_id", "id">>).ok
    THEN <<getStringAny(params, <<"label", "label_id", "id">>).s>> ELSE << >>

\* the rewrite of the request looks a label up in the label map of its account
RewriteConsults ==
    \/ /\ req.Action = "gmail.labels.get"
       /\ LooksUp(AskedLabel(req.Params), ReqPolicy.Gmail.AllowedReadLabels)
    \/ /\ req.Action = "gmail.thread.modify"
       /\ getStringAny(req.Params, <<"thread_id", "id">>).ok
       /\ TrimSpace(getStringAny(req.Params, <<"thread_id", "id">>).s) # ""
       /\ LooksUp(getStringSlice(req.Params, "add").l, ReqPolicy.Gmail.AllowedAddLabels)
    \/ /\ req.Action = "gmail.labels.modify"
       /\ (getStringSlice(req.Params, "thread_ids").ok
           \/ getStringAny(req.Params, <<"thread_id", "id">>).ok)
       /\ LooksUp(getStringSlice(req.Params, "add").l, ReqPolicy.Gmail.AllowedAddLabels)

\* the redaction of the answer filters the threads by label, through the label map
RedactionConsults ==
    /\ req.Action \in {"gmail.search", "gmail.thread.list"} /\ pc = "done" /\ resp.Ok
    /\ Len(ReqPolicy.Gmail.AllowedReadLabels) > 0

\* the label map of the account of the request was built, or its build has failed
BuildCompleted == labelKey(Resolved.account) \in labelOnce

\* the request was served under a Gmail policy that allows its action
ServedGmail ==
    /\ Served /\ WellFormed /\ req.Action \in AllowedActionsOf(ReqPolicy)
    /\ ReqPolicy.HasGmail

\* C24 -- label-map initialization happens-before every consultation: whenever a
\* rewrite (the label matching of gmail.labels.get, gmail.thread.modify and
\* gmail.labels.modify) or a redaction (the filter of a search) consults the label
\* map of an account, the build of that account's label map has completed; so the
\* outcome does not depend on an earlier gmail.search or gmail.thread.list.
C24_BuildBeforeConsultation ==
    (ServedGmail /\ (RewriteConsults \/ RedactionConsults)) => BuildCompleted

\* the part of it that is about the redaction of a search
C24_BuildBeforeFilter == (ServedGmail /\ RedactionConsults) => BuildCompleted

\* a label asked for by its name is refused while the map is not built ...
C24_RefusedBefore ==
    /\ ServedGmail /\ req.Action = "gmail.labels.get" /\ req.Params = [id |-> JStr(" family ")]
    /\ Resolved.account = "a@x.com" /\ ~BuildCompleted /\ resp.Error.Code = "forbidden"

\* ... and allowed once a search has had it built
C24_AllowedAfter ==
    /\ ServedGmail /\ req.Action = "gmail.labels.get" /\ req.Params = [id |-> JStr(" family ")]
    /\ Resolved.account = "a@x.com" /\ BuildCompleted /\ resp.Error.Code # "forbidden"

----------------------------------------------------------------------------
(* C25: the order of the stages of one request *)

\* the request is a search of threads
IsSearch == req.Action \in {"gmail.search", "gmail.thread.list"}

\* Handle refused the request at validate_and_rewrite
RewriterRefused == Refused /\ WellFormed /\ resp.Error.Code = "forbidden"
                   /\ req.Action \in AllowedActionsOf(ReqPolicy)

\* C25 -- linear stage order: a request goes through received, account_resolved,
\* allowed, rewritten, label_map_ready, executed, redacted, answered in that order
\* and a failure at one stage performs none of the later ones; the label-map build
\* comes after validate_and_rewrite has succeeded, so a gmail.search (or
\* gmail.thread.list) request the rewriter rejects causes no upstream invocation.
C25_LinearStageOrder == (IsSearch /\ RewriterRefused) => calls = << >>

\* the stages before the rewriter do come first: a request refused for its id, its
\* action, its account or its allowlist has caused no upstream invocation
C25_EarlyStagesFirst ==
    (Refused /\ (~WellFormed \/ req.Action \notin AllowedActionsOf(ReqPolicy)))
        => calls = << >>

\* a search the rewriter rejects after the label-map build has run for it
C25_BuiltThenRefused ==
    /\ IsSearch /\ RewriterRefused /\ Len(calls) = 1
    /\ "labels" \in SeqToSet(calls[1])

----------------------------------------------------------------------------
(* C26: the alias keys of the identifiers *)

\* the keys an action accepts in place of its canonical key
AliasKeys(action) ==
    IF action \in {"gmail.thread.get", "gmail.get", "gmail.thread.modify"} THEN {"id"}
    ELSE IF action = "gmail.labels.get" THEN {"label_id", "id"}
    ELSE IF action = "gmail.labels.modify" THEN {"thread_id", "id"}
    ELSE {}

\* the request names its thread, message or label by an alias key
UsesAlias == (DOMAIN req.Params) \cap AliasKeys(req.Action) # {}

\* the rewriter let the request through
PassedRewriter == ServedGmail /\ pc = "done" /\ resp.Error.Code # "forbidden"

\* the upstream was invoked for the request itself
InvokedUpstream == calls # << >> /\ resp.Error.Message # "failed to resolve label ids"

\* C26 -- alias coercion reaches the upstream: a request that gives `id` for
\* `thread_id` (gmail.thread.get, gmail.thread.modify), `id` for `message_id`
\* (gmail.get), `label_id` or `id` for `label` (gmail.labels.get) or a single
\* `thread_id`/`id` (gmail.labels.modify) is coerced to the canonical key and the
\* upstream is invoked with it; the alias key does not make the construction of the
\* arguments fail.
C26_AliasReachesUpstream ==
    (PassedRewriter /\ UsesAlias)
        => (InvokedUpstream /\ ~HasPrefix(resp.Error.Message, "unknown params: "))

\* with the canonical key alone the upstream is invoked
C26_CanonicalReachesUpstream ==
    (PassedRewriter /\ req.Action \in {"gmail.thread.get", "gmail.get"}
        /\ DOMAIN req.Params \in {{"thread_id"}, {"message_id"}})
        => (InvokedUpstream /\ ~HasPrefix(resp.Error.Message, "unknown params: "))

C26_CanonicalInvoked ==
    /\ PassedRewriter /\ req.Action = "gmail.thread.get" /\ DOMAIN req.Params = {"thread_id"}
    /\ InvokedUpstream /\ "t1" \in SeqToSet(calls[Len(calls)])

\* a thread named by `id` passes the rewriter and stops at the argument construction
C26_AliasStopped ==
    /\ PassedRewriter /\ req.Action = "gmail.thread.get" /\ req.Params = [id |-> JStr("t1")]
    /\ calls = << >> /\ resp.Error = NewError("upstream_error", "unknown params: id")

----------------------------------------------------------------------------
(* Policy.SetLabelMap against the readers of the label map, each in its goroutine *)

\* the account whose policy the goroutines share
SharedAccount == "a@x.com"

\* the id -> name maps SetLabelMap is called with; one has entries it drops
PublishedMaps ==
    {("Label_1" :> "Family") @@ (" INBOX " :> "Inbox") @@ ("Label_9" :> " "),
     ("Label_2" :> "Work")}

\* the labels the readers ask for
AskedLabels == {"label_1", " Family ", "Label_2", "inbox"}

Publishing(at, op, arg, seen) == [at |-> at, op |-> op, arg |-> arg, seen |-> seen]

NotPublishing == Publishing("idle", "", "", NoString)

\* a mutex that holds no reader back
WriteLockedNever(account) == FALSE

\* p.labelMu is held for writing: a goroutine is between Lock and Unlock
WriteLocked(account) ==
    \E g \in DOMAIN handlers : handlers[g].at \in {"set.locked", "set.half", "set.full"}

\* p.labelMu is held for reading: a goroutine is between RLock and RUnlock
ReadLocked(account) == \E g \in DOMAIN handlers : handlers[g].at = "read.locked"

PublishInit ==
    /\ policies = LoadSet(LabelledAccounts).set
    /\ DefaultAccount = ""
    /\ labelOnce = {}
    /\ labelErr = EmptyMap
    /\ labelIDToName = [a \in DOMAIN policies.Accounts |-> NilMap]
    /\ labelNameToID = [a \in DOMAIN policies.Accounts |-> NilMap]
    /\ alive = TRUE
    /\ now = CHOOSE t \in Nows : \A u \in Nows : t <= u
    /\ pc = "publishing"
    /\ req = NoRequest
    /\ resp = NoResponse
    /\ calls = << >>
    /\ handlers = [g \in 1..MaxHandlers |-> NotPublishing]
    /\ redIn = NoRedact
    /\ redOut = RedactErr("")

\* SetLabelMap is called: it builds normalized and rev, and takes p.labelMu
SetLock(g) ==
    /\ handlers[g].at = "idle"
    /\ ~WriteLocked(SharedAccount) /\ ~ReadLocked(SharedAccount)
    /\ \E idToName \in PublishedMaps :
          handlers' = [handlers EXCEPT ![g] = Publishing("set.locked", "SetLabelMap", idToName,
                                                           NoString)]
    /\ UNCHANGED <<policies, DefaultAccount, labelOnce, labelErr, labelIDToName, labelNameToID,
                   alive, now, pc, req, resp, calls, redIn, redOut>>

\* p.labelIDToName = normalized
SetIDs(g) ==
    /\ handlers[g].at = "set.locked"
    /\ labelIDToName' = [labelIDToName EXCEPT
                            ![SharedAccount] = SetLabelMapNormalized(handlers[g].arg)]
    /\ handlers' = [handlers EXCEPT ![g].at = "set.half"]
    /\ UNCHANGED <<policies, DefaultAccount, labelOnce, labelErr, labelNameToID,
                   alive, now, pc, req, resp, calls, redIn, redOut>>

\* p.labelNameToID = rev
SetNames(g) ==
    /\ handlers[g].at = "set.half"
    /\ labelNameToID' = [labelNameToID EXCEPT
                            ![SharedAccount] = SetLabelMapRev(handlers[g].arg)]
    /\ handlers' = [handlers EXCEPT ![g].at = "set.full"]
    /\ UNCHANGED <<policies, DefaultAccount, labelOnce, labelErr, labelIDToName,
                   alive, now, pc, req, resp, calls, redIn, redOut>>

\* p.labelMu.Unlock()
SetUnlock(g) ==
    /\ handlers[g].at = "set.full"
    /\ handlers' = [handlers EXCEPT ![g] = NotPublishing]
    /\ UNCHANGED <<policies, DefaultAccount, labelOnce, labelErr, labelIDToName, labelNameToID,
                   alive, now, pc, req, resp, calls, redIn, redOut>>

\* LabelNameForID or LabelIDForName is called and takes p.labelMu for reading
ReadLock(g) ==
    /\ handlers[g].at = "idle"
    /\ ~WriteLocked(SharedAccount)
    /\ \E op \in {"LabelNameForID", "LabelIDForName"}, label \in AskedLabels :
          handlers' = [handlers EXCEPT ![g] = Publishing("read.locked", op, label, NoString)]
    /\ UNCHANGED <<policies, DefaultAccount, labelOnce, labelErr, labelIDToName, labelNameToID,
                   alive, now, pc, req, resp, calls, redIn, redOut>>

\* the reader looks its label up in its map and returns, releasing p.labelMu
ReadUnlock(g) ==
    /\ handlers[g].at = "read.locked"
    /\ handlers' = [handlers EXCEPT ![g] =
                       Publishing("idle", handlers[g].op, handlers[g].arg,
                                  IF handlers[g].op = "LabelNameForID"
                                  THEN LabelNameForID(PolicyOf(SharedAccount), handlers[g].arg)
                                  ELSE LabelIDForName(PolicyOf(SharedAccount), handlers[g].arg))]
    /\ UNCHANGED <<policies, DefaultAccount, labelOnce, labelErr, labelIDToName, labelNameToID,
                   alive, now, pc, req, resp, calls, redIn, redOut>>

PublishNext ==
    \E g \in 1..MaxHandlers :
        SetLock(g) \/ SetIDs(g) \/ SetNames(g) \/ SetUnlock(g) \/ ReadLock(g) \/ ReadUnlock(g)

SpecPublish == PublishInit /\ [][PublishNext]_vars

\* both maps of the shared policy are unset
BothUnset == labelIDToName[SharedAccount] = NilMap /\ labelNameToID[SharedAccount] = NilMap

\* both maps hold all the entries of one published map, each the reverse of the other
BothInstalled ==
    \E idToName \in PublishedMaps :
        /\ labelIDToName[SharedAccount] = SetLabelMapNormalized(idToName)
        /\ labelNameToID[SharedAccount] = SetLabelMapRev(idToName)

\* what a lookup of label can return from an unset map or from a whole one
WholeAnswers(op, label) ==
    {NoString}
    \cup {IF op = "LabelNameForID"
          THEN Lookup(SetLabelMapNormalized(idToName), ToLower(TrimSpace(label)))
          ELSE Lookup(SetLabelMapRev(idToName), ToLower(TrimSpace(label))) :
             idToName \in PublishedMaps}

\* C27 -- atomic label-map publication: under every interleaving of SetLabelMap
\* with LabelNameForID / LabelIDForName readers, a reader (a goroutine that holds
\* the lock for reading) finds both maps unset, or both fully populated and
\* consistent with each other; what it returns is the answer of an unset map or of
\* a whole map, never of a part of one or of one direction alone.
C27_AtomicPublication ==
    /\ pc = "publishing" /\ ReadLocked(SharedAccount) => BothUnset \/ BothInstalled
    /\ pc = "publishing" =>
          \A g \in DOMAIN handlers :
              handlers[g].op \in {"LabelNameForID", "LabelIDForName"}
                  => handlers[g].seen \in WholeAnswers(handlers[g].op, handlers[g].arg)

\* a reader holds the lock on installed maps while another goroutine, which has
\* read before the publication, is back
C27_ReadsInstalled ==
    /\ pc = "publishing" /\ BothInstalled
    /\ \E g \in DOMAIN handlers :
          /\ handlers[g].at = "read.locked" /\ handlers[g].op = "LabelIDForName"
    /\ \E g \in DOMAIN handlers : handlers[g].at = "idle" /\ handlers[g].seen.ok

\* one direction alone is installed only while the writer holds the lock
C27_HalfUnderLock ==
    /\ pc = "publishing" /\ ~BothUnset /\ ~BothInstalled
    /\ \E g \in DOMAIN handlers : handlers[g].at = "set.half"

----------------------------------------------------------------------------
(* C28: the account of the upstream invocations *)

\* the account an invocation of the upstream is made for
AccountOfCall(args) == IF Len(args) >= 2 /\ args[1] = "--account" THEN args[2] ELSE ""

\* the invocation the time-zone provider makes for a calendar request
IsZoneCall(args) ==
    req.Action \in {"calendar.events", "calendar.freebusy"} /\ "calendars" \in SeqToSet(args)

C28_OwnCallsIsolated ==
    (Served /\ WellFormed)
        => /\ \A i \in 1..Len(calls) :
                 IsZoneCall(calls[i]) \/ AccountOfCall(calls[i]) = Resolved.account
           /\ calls # << >> => labelOnce \subseteq DOMAIN policies.Accounts

\* a search for one account after the label map of another account was built
C28_SecondAccountServed ==
    /\ Served /\ WellFormed /\ Len(calls) = 1 /\ AccountOfCall(calls[1]) = Resolved.account
    /\ labelOnce # {} /\ labelKey(Resolved.account) \notin labelOnce

\* a calendar request whose time zone was asked of another account, or of none
C28_ZoneOfOtherAccount ==
    /\ Served /\ WellFormed /\ calls # << >> /\ IsZoneCall(calls[1])
    /\ AccountOfCall(calls[1]) # Resolved.account

----------------------------------------------------------------------------
(* C29: which policy decides the masking of links *)

\* Redact has returned the answer of a Calendar action
RedactedCalendar ==
    pc = "redacted" /\ redIn.action \in CalendarActions /\ redOut.err = ""

\* the policy of the action's family wants links masked
FamilyMasksLinks ==
    IF redIn.action \in GmailActions THEN ~redIn.pol.Gmail.AllowLinks
    ELSE ~redIn.pol.Calendar.AllowDetails

\* a string of the answer returned holds the replacement of a link
LinkMasked == \E str \in StringsIn(redOut.data) : Contains(str, "[redacted]")

\* a string of the answer returned holds a link
LinkLeft ==
    \E str \in StringsIn(redOut.data) :
        \E i \in 1..Len(str) : LinkAt(str, i, "http://") \/ LinkAt(str, i, "https://")

\* C29 -- URL masking follows the family of the action: in the answer of a Gmail
\* action links are replaced by [redacted] if and only if gmail.allow_links is
\* false, whatever the calendar policy; in the answer of a Calendar action if and
\* only if calendar.allow_details is false, whatever the gmail policy.
C29_MaskingFollowsFamily ==
    (RedactedGmail \/ RedactedCalendar)
        => /\ LinkMasked => FamilyMasksLinks
           /\ FamilyMasksLinks => ~LinkLeft

\* the half that holds: when the policy of the family wants links masked, none is left
C29_MaskedWhenAsked ==
    ((RedactedGmail \/ RedactedCalendar) /\ FamilyMasksLinks) => ~LinkLeft

\* the link of an event masked for the mail policy, the details being allowed
C29_MaskedForOtherFamily ==
    /\ RedactedCalendar /\ redIn.pol.Calendar.AllowDetails /\ ~redIn.pol.Gmail.AllowLinks
    /\ LinkMasked

\* the link of a message masked for the calendar policy, links being allowed
C29_MailMaskedForCalendar ==
    /\ RedactedGmail /\ redIn.pol.Gmail.AllowLinks /\ ~redIn.pol.Calendar.AllowDetails
    /\ redIn.pol.HasCalendar /\ LinkMasked

----------------------------------------------------------------------------
(* parseTimeExpr on the weekday expressions, on every day of a week *)

DayNames == <<"sunday", "monday", "tuesday", "wednesday", "thursday", "friday", "saturday">>

ShortNames == <<"sun", "mon", "tue", "wed", "thu", "fri", "sat">>

\* the instants of now: early and late on each day from Monday 2026-11-02 on
WeekNows ==
    {(DaysFromCivil(2026, 11, 2) + d) * SecondsPerDay + c :
        d \in 0..6, c \in {3600, 23 * 3600 + 1800}}

\* the zones of now, in seconds east of UTC
WeekZones == {0, 7200, -18000}

\* the expressions parsed: every weekday name, long and short, plain and after
\* "next ", some of them spelled loosely, and some that name no weekday
WeekdayExprs ==
    {DayNames[i] : i \in 1..7} \cup {ShortNames[i] : i \in 1..7}
    \cup {"next " \o DayNames[i] : i \in 1..7} \cup {"next " \o ShortNames[i] : i \in 1..7}
    \cup {" Friday ", "NEXT FRI", "next", "next  mon", "nextmon", "someday"}

WeekdayInit ==
    /\ policies = LoadSet(TwoAccounts).set
    /\ DefaultAccount = ""
    /\ labelOnce = {}
    /\ labelErr = EmptyMap
    /\ labelIDToName = [a \in DOMAIN policies.Accounts |-> NilMap]
    /\ labelNameToID = [a \in DOMAIN policies.Accounts |-> NilMap]
    /\ alive = TRUE
    /\ now \in WeekNows
    /\ pc = "parsing"
    /\ req = NoRequest
    /\ resp = NoResponse
    /\ calls = << >>
    /\ handlers = << >>
    /\ redIn \in {[expr |-> e, loc |-> z] : e \in WeekdayExprs, z \in WeekZones}
    /\ redOut = NoTime

\* parseTimeExpr runs on the expression, with now in the zone
WeekdayStep ==
    /\ pc = "parsing"
    /\ redOut' = parseTimeExpr(redIn.expr, Time(now, redIn.loc), redIn.loc)
    /\ pc' = "parsed"
    /\ UNCHANGED <<handlers, policies, DefaultAccount, labelOnce, labelErr, labelIDToName,
                   labelNameToID, alive, now, req, resp, calls, redIn>>

SpecWeekday == WeekdayInit /\ [][WeekdayStep]_vars

\* the day a time falls on in its zone, counted from 1970-01-01
LocalDay(x) == (x.t + x.off) \div SecondsPerDay

\* how many days after today the resolved day is
DaysAhead == LocalDay(redOut) - LocalDay(Time(now, redIn.loc))

\* the expression is the name of weekday d (0 is Sunday), after the given prefix
Names(prefix, d) ==
    ToLower(TrimSpace(redIn.expr)) \in {prefix \o DayNames[d + 1], prefix \o ShortNames[d + 1]}

\* parseTimeExpr has resolved the expression to the start of a day that is weekday d
StartOfA(d) ==
    /\ redOut.ok /\ redOut.off = redIn.loc
    /\ (redOut.t + redOut.off) % SecondsPerDay = 0
    /\ Weekday(redOut.t + redOut.off) = d

\* the resolved day lies in the week after the one of today, weeks starting on
\* weekStart
InNextWeek(weekStart) ==
    startOfWeek(redOut, weekStart) = startOfWeek(AddDays(Time(now, redIn.loc), 7), weekStart)

\* C30 -- weekday expressions in the time-range resolver: for every current weekday
\* and target weekday, a plain weekday name resolves to the start of the earliest day
\* on or after today that has that weekday (0 to 6 days ahead), and the name after
\* `next ` resolves to the occurrence of next week, a day strictly after today (the
\* weekday of today itself is pushed 7 days).
C30_WeekdayExpressions ==
    pc = "parsed"
        => \A d \in 0..6 :
              /\ Names("", d) => (StartOfA(d) /\ DaysAhead \in 0..6)
              /\ Names("next ", d) => (StartOfA(d) /\ DaysAhead >= 1 /\ InNextWeek(1))

\* what holds of it: the plain name gives the earliest such day from today on, the
\* name after `next ` the earliest such day after today, today's weekday pushed 7 days
C30_EarliestOccurrence ==
    pc = "parsed"
        => \A d \in 0..6 :
              /\ Names("", d) => (StartOfA(d) /\ DaysAhead \in 0..6)
              /\ Names("next ", d) => (StartOfA(d) /\ DaysAhead \in 1..7)

\* `next` with the weekday of today: a week ahead
C30_TodayPushed ==
    /\ pc = "parsed" /\ Names("next ", Weekday(now + redIn.loc)) /\ DaysAhead = 7

\* `next fri` on a Thursday: tomorrow, in the week of today whichever day starts it
C30_NextIsTomorrow ==
    /\ pc = "parsed" /\ Weekday(now + redIn.loc) = 4 /\ redIn.expr = "next fri"
    /\ DaysAhead = 1 /\ ~InNextWeek(1) /\ ~InNextWeek(0)

============================================================================
